---- MODULE Spec2Model ----
(***************************************************************************)
(* Session-binding state machine of the pitaya cluster fabric              *)
(* (remote/sys.go): the four callbacks Sys.Init registers on the session   *)
(* pool and the Sys remote handlers, run by several servers that share a   *)
(* cluster cache and a message broker.                                     *)
(***************************************************************************)
EXTENDS Integers, Sequences, FiniteSets, TLC

(***************************************************************************)
(* The cluster: two frontends of one type, two backends of another.        *)
(***************************************************************************)
Servers == {"F1", "F2", "B1", "B2"}
Frontends == {"F1", "F2"}

ServerType(sv) == IF sv \in Frontends THEN "connector" ELSE "game"

IsFrontend(sv) == sv \in Frontends

ServerTypes == {ServerType(sv) : sv \in Servers}

ServersOfType(t) == {sv \in Servers : ServerType(sv) = t}

Uids == {"u1"}
Datas == {"d0", "d1"}
Metas == {"m0"}
NoMeta == ""

\* Bound of the model: Session.Bind and Session.BindBackend calls made in
\* the cluster.
MaxOps == 2

NoServer == ""
NoUid == ""
NoSession == <<"", 0>>

\* Close reasons (session.CloseReason).
CloseReasons == {"Normal", "Rebind"}

\* Session handles: a session accepted on a frontend carries its session id,
\* a backend holds the context sessions of the requests it serves.
FrontSessions == {<<"F1", 1>>, <<"F2", 2>>}
BackSessions == {<<"B1", -1>>, <<"B1", -2>>}
Handles == FrontSessions \cup BackSessions

Owner(h) == h[1]
SessionID(h) == h[2]

NoBackends == [t \in ServerTypes |-> NoServer]

VARIABLES
    sess,    \* session objects: handle -> record
    pool,    \* session pool by-uid index of every server
    cache,   \* cluster cache: uid -> binding record
    net,     \* broker messages in flight
    sent,    \* every message ever published
    calls,   \* callback invocations, running and returned
    heard,   \* listener callbacks run on each server
    replies, \* handler results
    ns,      \* the NatsRPCServer of one server: its fields
    chans,   \* its channels: subChan, bindingsChan, userPushCh, userKickCh
    work,    \* its worker tasks: what each holds and the tasks they spawned
    hist     \* what went through the engine, in order

sysvars == <<sess, pool, cache, net, sent, calls, heard, replies>>
nsvars == <<ns, chans, work, hist>>
vars == <<sess, pool, cache, net, sent, calls, heard, replies, ns, chans, work, hist>>

\* No engine is modelled next to the session callbacks.
NoEngine == [status |-> "none"]
NoChans == <<>>
NoWork == <<>>
NoHist == <<>>

NoRecord == [present |-> FALSE, fid |-> NoServer, fsid |-> 0,
             backends |-> NoBackends, data |-> "d0"]

NewSession == [uid |-> NoUid, fid |-> NoServer, fsid |-> 0, data |-> "d0",
               backends |-> NoBackends, st |-> "Unbound"]

(***************************************************************************)
(* Session entity and cluster cache.                                       *)
(***************************************************************************)
\* Session.Flush2Cluster: the whole serialized session replaces the record.
Flush2Cluster(s) == [present |-> TRUE, fid |-> s.fid, fsid |-> s.fsid,
                     backends |-> s.backends, data |-> s.data]

\* Session.ObtainFromCluster: the authoritative record is loaded into the
\* local session.
ObtainFromCluster(s, rec) ==
    IF rec.present
    THEN [s EXCEPT !.fid = rec.fid, !.fsid = rec.fsid,
                   !.backends = rec.backends, !.data = rec.data]
    ELSE s

\* Session.SetFrontendData
SetFrontendData(s, fid, fsid) == [s EXCEPT !.fid = fid, !.fsid = fsid]

\* Session.SetDataEncoded
SetDataEncoded(s, d) == [s EXCEPT !.data = d]

(***************************************************************************)
(* Messages.                                                               *)
(***************************************************************************)
\* A published message: the route, the receiving server, the payload fields
\* of BindMsg, KickMsg, BindBackendMsg and protos.Session (data), the uid of
\* the session sent along (suid), and the invocation that published it
\* (kind, by, n).
Msg(route, to, uid, fid, sid, btype, bid, md, suid, kind, by, n) ==
    [route |-> route, to |-> to, uid |-> uid, fid |-> fid, sid |-> sid,
     btype |-> btype, bid |-> bid, md |-> md, suid |-> suid,
     kind |-> kind, by |-> by, n |-> n, data |-> ""]

NoMsg == Msg("", NoServer, NoUid, NoServer, 0, "", NoServer, "", NoUid, "", NoSession, 0)

Publish(ms) == /\ net' = net \cup ms
               /\ sent' = sent \cup ms

\* RemoteService.Fork: every instance of the type receives the message.
Fork(t, m) == {[m EXCEPT !.to = sv] : sv \in ServersOfType(t)}

\* One instance of each of the types ts, as discovery resolves them.
Picks(ts) == {f \in [ts -> Servers] : \A t \in ts : ServerType(f[t]) = t}

\* RemoteService.NotifyAll: one Notify per server type other than the
\* caller's own, each to one instance of that type.
NotifyAllTypes(self) == ServerTypes \ {ServerType(self)}
NotifyAll(ts, pick, m) == {[m EXCEPT !.to = pick[t]] : t \in ts}

(***************************************************************************)
(* Callback invocations: one record per session, of its running or last    *)
(* returned session-layer operation.                                       *)
(***************************************************************************)
Idle == [kind |-> "", n |-> 0, sv |-> NoServer, uid |-> NoUid, md |-> "",
         reason |-> "", btype |-> "", target |-> NoServer,
         pc |-> "idle", err |-> "OK", olddata |-> "d0", oldb |-> NoServer,
         ops |-> <<>>, failed |-> {}, via |-> NoMsg, after |-> {},
         notified |-> {}]

Call(kind, h, uid, md, pc) ==
    [Idle EXCEPT !.kind = kind, !.n = calls[h].n + 1, !.sv = Owner(h),
                 !.uid = uid, !.md = md, !.pc = pc, !.olddata = sess[h].data,
                 !.after = {g \in FrontSessions : sess[g].st = "Closed"}]

Did(c, op) == Cardinality({i \in 1..Len(c.ops) : c.ops[i] = op})

Step(h, op, pc) == [calls EXCEPT ![h].ops = Append(@, op), ![h].pc = pc]

Fail(h, op, err) ==
    [calls EXCEPT ![h].ops = Append(@, op), ![h].failed = @ \cup {op},
                  ![h].pc = "done", ![h].err = err]

Busy(h) == calls[h].pc \notin {"idle", "done"}

\* The result of a handler-driven invocation is the handler's result.
Reply(h, err) ==
    replies' = IF calls[h].via = NoMsg THEN replies
               ELSE replies \cup {[msg |-> calls[h].via,
                                    res |-> IF err = "OK" THEN "ack" ELSE err]}

\* The listener tasks of a server: co.GoBySession and co.GoByUID hand a
\* listener call to the task of a key.  handlers holds the notifications
\* the dispatch worker has handed over and no handler has run for yet.
\* listeners and binders are the RemoteSessionListener and the
\* RemoteBindingListener registrations, in the order they were made; a
\* listener is named by its place.  loopvar says what the closure of a
\* range loop captures: the variable of its own iteration, or the one
\* variable of the loop, as the toolchain the module is built with decides.
MaxListeners == 2
ListenerLists == {[i \in 1..n |-> i] : n \in 0..MaxListeners}
LoopVars == {"iteration", "loop"}
ListenerWork == [handlers |-> <<>>, tasks |-> <<>>, listeners |-> <<1>>,
                 binders |-> <<1>>, loopvar |-> "iteration"]

RECURSIVE SumOps(_)
SumOps(S) == IF S = {} THEN 0
             ELSE LET h == CHOOSE x \in S : TRUE
                  IN calls[h].n + SumOps(S \ {h})

\* Session.Bind and Session.BindBackend calls made so far.
Ops == SumOps(Handles)

Init ==
    /\ sess = [h \in Handles |->
                 IF h \in FrontSessions THEN NewSession
                 ELSE [NewSession EXCEPT !.st = "Absent"]]
    /\ pool = [sv \in Servers |-> [u \in Uids |-> NoSession]]
    /\ cache = [u \in Uids |-> NoRecord]
    /\ net = {}
    /\ sent = {}
    /\ calls = [h \in Handles |-> Idle]
    /\ heard = {}
    /\ replies = {}
    /\ ns = NoEngine /\ chans = NoChans /\ work = ListenerWork /\ hist = NoHist

\* Session.Set on a session that is not bound yet.
SetData(h) ==
    /\ h \in FrontSessions
    /\ sess[h].st = "Unbound" /\ sess[h].uid = NoUid /\ sess[h].data = "d0"
    /\ sess' = [sess EXCEPT ![h].data = "d1"]
    /\ UNCHANGED <<pool, cache, net, sent, calls, heard, replies>>
    /\ UNCHANGED nsvars

(***************************************************************************)
(* OnSessionBind (sys.go 57-116), driven by Session.Bind.                  *)
(***************************************************************************)
\* protos.BindMsg built by the callback.
BindMsg(h) ==
    Msg("session.bound", NoServer, sess[h].uid, calls[h].sv, SessionID(h),
        "", NoServer, calls[h].md, sess[h].uid, "bind", h, calls[h].n)

\* Mutant: the session keeps the frontend data it had.
FrontendData_Keep(h) == <<sess[h].fid, sess[h].fsid>>

\* The frontend data the callback sets on the session.
FrontendData(h) == <<calls[h].sv, SessionID(h)>>

\* The rollback: the snapshot is restored; Session.Bind then clears the uid.
BindRollback(h) ==
    [sess EXCEPT ![h] = [SetDataEncoded(@, calls[h].olddata) EXCEPT !.uid = NoUid]]

\* Session.Bind sets the uid and runs the callback, which snapshots the
\* encoded data.
BindStart(h, u, md) ==
    /\ h \in FrontSessions
    /\ Ops < MaxOps
    /\ sess[h].st = "Unbound" /\ sess[h].uid = NoUid
    /\ ~Busy(h)
    /\ sess' = [sess EXCEPT ![h].uid = u]
    /\ calls' = [calls EXCEPT ![h] = Call("bind", h, u, md, "obtain")]
    /\ UNCHANGED <<pool, cache, net, sent, heard, replies>>
    /\ UNCHANGED nsvars

BindObtain(h) ==
    /\ calls[h].kind = "bind" /\ calls[h].pc = "obtain"
    /\ \/ /\ sess' = [sess EXCEPT ![h] =
                        SetFrontendData(ObtainFromCluster(@, cache[calls[h].uid]),
                                        FrontendData(h)[1], FrontendData(h)[2])]
          /\ calls' = Step(h, "obtain", "flush")
          /\ UNCHANGED replies
       \/ /\ sess' = BindRollback(h)
          /\ calls' = Fail(h, "obtain", "ErrObtain")
          /\ Reply(h, "ErrObtain")
    /\ UNCHANGED <<pool, cache, net, sent, heard>>
    /\ UNCHANGED nsvars

\* Mutant: the callback goes on after a failed Flush2Cluster.
BindFlush_GoesOn(h) ==
    /\ calls[h].kind = "bind" /\ calls[h].pc = "flush"
    /\ \/ /\ cache' = [cache EXCEPT ![calls[h].uid] = Flush2Cluster(sess[h])]
          /\ calls' = Step(h, "flush", "broadcast")
       \/ /\ calls' = [Step(h, "flush", "broadcast") EXCEPT ![h].failed = @ \cup {"flush"}]
          /\ UNCHANGED cache
    /\ UNCHANGED <<sess, pool, net, sent, heard, replies>>
    /\ UNCHANGED nsvars

\* Flush2Cluster, after SetFrontendData: the record is written, or the
\* callback breaks out and rolls back.
BindFlush(h) ==
    /\ calls[h].kind = "bind" /\ calls[h].pc = "flush"
    /\ \/ /\ cache' = [cache EXCEPT ![calls[h].uid] = Flush2Cluster(sess[h])]
          /\ calls' = Step(h, "flush", "broadcast")
          /\ UNCHANGED <<sess, replies>>
       \/ /\ sess' = BindRollback(h)
          /\ calls' = Fail(h, "flush", "ErrFlush")
          /\ Reply(h, "ErrFlush")
          /\ UNCHANGED cache
    /\ UNCHANGED <<pool, net, sent, heard>>
    /\ UNCHANGED nsvars

\* BroadcastSessionBind: its error is overwritten by route.Decode's.
BindBroadcast(h) ==
    /\ calls[h].kind = "bind" /\ calls[h].pc = "broadcast"
    /\ \/ /\ sent' = sent \cup {[BindMsg(h) EXCEPT !.route = "bindings",
                                                   !.to = ServerType(calls[h].sv)]}
          /\ calls' = Step(h, "broadcast", "fork")
       \/ /\ calls' = [Step(h, "broadcast", "fork") EXCEPT ![h].failed = @ \cup {"broadcast"}]
          /\ UNCHANGED sent
    /\ UNCHANGED <<sess, pool, cache, net, heard, replies>>
    /\ UNCHANGED nsvars

\* Mutant: the fork reaches only the other instances of the type.
BindFork_NotSelf(h) ==
    /\ calls[h].kind = "bind" /\ calls[h].pc = "fork"
    /\ Publish(Fork(ServerType(calls[h].sv), [BindMsg(h) EXCEPT !.route = "session.bound.fork"])
               \ {[BindMsg(h) EXCEPT !.route = "session.bound.fork", !.to = calls[h].sv]})
    /\ calls' = Step(h, "fork", "notifyall")
    /\ UNCHANGED <<sess, pool, cache, heard, replies>>
    /\ UNCHANGED nsvars

BindFork(h) ==
    /\ calls[h].kind = "bind" /\ calls[h].pc = "fork"
    /\ \/ /\ Publish(Fork(ServerType(calls[h].sv), [BindMsg(h) EXCEPT !.route = "session.bound.fork"]))
          /\ calls' = Step(h, "fork", "notifyall")
          /\ UNCHANGED <<sess, replies>>
       \/ /\ sess' = BindRollback(h)
          /\ calls' = Fail(h, "fork", "ErrFork")
          /\ Reply(h, "ErrFork")
          /\ UNCHANGED <<net, sent>>
    /\ UNCHANGED <<pool, cache, heard>>
    /\ UNCHANGED nsvars

\* The last step; on success Session.Bind indexes the session by uid.
BindNotifyAll(h) ==
    LET ts == NotifyAllTypes(calls[h].sv) IN
    /\ calls[h].kind = "bind" /\ calls[h].pc = "notifyall"
    /\ \/ \E pick \in Picks(ts) :
             /\ Publish(NotifyAll(ts, pick, BindMsg(h)))
             /\ calls' = Step(h, "notifyall", "done")
             /\ sess' = [sess EXCEPT ![h].st = "Bound"]
             /\ pool' = [pool EXCEPT ![calls[h].sv][calls[h].uid] = h]
             /\ Reply(h, "OK")
       \/ \E part \in (SUBSET ts) \ {ts} : \E pick \in Picks(part) :
             /\ Publish(NotifyAll(part, pick, BindMsg(h)))
             /\ sess' = BindRollback(h)
             /\ calls' = Fail(h, "notifyall", "ErrNotifyAll")
             /\ Reply(h, "ErrNotifyAll")
             /\ UNCHANGED pool
    /\ UNCHANGED <<cache, heard>>
    /\ UNCHANGED nsvars

(***************************************************************************)
(* OnSessionClose (sys.go 118-145), driven by Session.Close.               *)
(***************************************************************************)
\* protos.KickMsg built by the callback.
KickMsg(h, md) ==
    Msg("session.closed", NoServer, sess[h].uid, NoServer, 0, "", NoServer,
        md, sess[h].uid, "close", h, calls[h].n)

\* Mutant: the close reason is not looked at.
CloseNotifies_AnyReason(sv, reason) == IsFrontend(sv)

\* Whether the callback fans the close out.
CloseNotifies(sv, reason) == IsFrontend(sv) /\ reason # "Rebind"

\* Session.Close closes the session, drops it from the by-uid index and
\* runs the callback; handled is the request whose handler closes it.
SessionCloses(h, reason, md, handled) ==
    LET sv == Owner(h)
        ts == NotifyAllTypes(sv)
        c == [Call("close", h, sess[h].uid, md, "done")
                EXCEPT !.reason = reason, !.n = calls[h].n] IN
    /\ sess' = [sess EXCEPT ![h].st = "Closed"]
    /\ pool' = [pool EXCEPT ![sv] = [u \in Uids |-> IF @[u] = h THEN NoSession ELSE @[u]]]
    /\ IF CloseNotifies(sv, reason)
       THEN \/ \E pick \in Picks(ts) :
                 /\ net' = (net \ handled) \cup NotifyAll(ts, pick, KickMsg(h, md))
                 /\ sent' = sent \cup NotifyAll(ts, pick, KickMsg(h, md))
                 /\ calls' = [calls EXCEPT ![h] = [c EXCEPT !.ops = <<"notifyall">>]]
            \/ \E part \in (SUBSET ts) \ {ts} : \E pick \in Picks(part) :
                 /\ net' = (net \ handled) \cup NotifyAll(part, pick, KickMsg(h, md))
                 /\ sent' = sent \cup NotifyAll(part, pick, KickMsg(h, md))
                 /\ calls' = [calls EXCEPT ![h] =
                                [c EXCEPT !.ops = <<"notifyall">>, !.failed = {"notifyall"},
                                          !.err = "ErrNotifyAll"]]
       ELSE /\ calls' = [calls EXCEPT ![h] = c]
            /\ net' = net \ handled
            /\ UNCHANGED sent

\* Session.Close called on the server that holds the session.
OnSessionClose(h, reason, md) ==
    /\ sess[h].st \in {"Unbound", "Bound", "Ctx"}
    /\ ~Busy(h)
    /\ SessionCloses(h, reason, md, {})
    /\ UNCHANGED <<cache, heard, replies>>
    /\ UNCHANGED nsvars

FreeCtx(sv) == {g \in BackSessions : Owner(g) = sv /\ sess[g].st = "Absent"}

\* A request of a bound user reaches a backend: its context session is
\* built from the frontend session's data.
CtxRequest(bh, fh) ==
    /\ bh \in BackSessions /\ fh \in FrontSessions
    /\ \A g \in FreeCtx(Owner(bh)) : SessionID(bh) >= SessionID(g)
    /\ sess[bh].st = "Absent" /\ sess[fh].st = "Bound"
    /\ sess' = [sess EXCEPT ![bh] = [sess[fh] EXCEPT !.st = "Ctx"]]
    /\ UNCHANGED <<pool, cache, net, sent, calls, heard, replies>>
    /\ UNCHANGED nsvars

(***************************************************************************)
(* Sys remote handlers run for a delivered message.                        *)
(***************************************************************************)
\* A uid no session of the pools has.
OtherUid == "u0"

\* SessionPool.GetSessionByUID
GetSessionByUID(sv, uid) == IF uid \in Uids THEN pool[sv][uid] ELSE NoSession

\* Requests sent straight to the session.push and session.bind remotes.
MaxPushes == 2
MaxRPCBinds == 1

\* The call ev of listener r that the k-th turn of a handler's loop makes
\* for message m.
Called(m, ev, x, k, r) ==
    [sv |-> m.to, ev |-> ev, uid |-> m.uid, x |-> x, md |-> m.md, by |-> m.by,
     n |-> m.n, k |-> k, r |-> r]

\* A call that is not a listener's.
Hear(m, ev, x) == heard' = heard \cup {Called(m, ev, x, 0, 0)}

\* for _, r := range listeners { r.ev(...) }: every listener is called in
\* the handler.
HearAll(m, ev, x, ls) ==
    heard' = heard \cup {Called(m, ev, x, k, ls[k]) : k \in DOMAIN ls}

GetRemoteSessionListener == work.listeners

GetRemoteBindingListener == work.binders

Ack(m) == replies' = replies \cup {[msg |-> m, res |-> "ack"]}

\* SessionPool.GetSessionByID: the sessions a frontend accepted, and the
\* sessions a backend stored.
GetSessionByID(sv, sid) ==
    IF /\ <<sv, sid>> \in FrontSessions
       /\ sess[<<sv, sid>>].st \in {"Unbound", "Bound"}
    THEN <<sv, sid>>
    ELSE IF \E u \in Uids : pool[sv][u] # NoSession /\ SessionID(pool[sv][u]) = sid
    THEN <<sv, sid>>
    ELSE NoSession

\* The key of the task a handler runs its listeners on: co.GoBySession
\* takes the session, co.GoByUID the uid.  Without a session,
\* co.GoBySession is taken to fall back to one key of its own, so that its
\* tasks still run one after another.
GoBySession(sv, h) ==
    [sv |-> sv, by |-> "session", uid |-> NoUid,
     sid |-> IF h = NoSession THEN 0 ELSE SessionID(h)]

GoByUID(sv, uid) == [sv |-> sv, by |-> "uid", uid |-> uid, sid |-> 0]

\* The listener each closure of the loop calls when it runs.  A closure
\* that captures the variable of its own iteration calls the listener of
\* its turn.  A closure that captures the one variable of the loop calls
\* the listener the variable holds when the closure runs: the one of its
\* turn or a later one, and never an earlier one than the closure handed
\* over before it (tasks of one key run in order).
Captures(ls) ==
    IF work.loopvar = "iteration" THEN {[k \in DOMAIN ls |-> k]}
    ELSE {g \in [DOMAIN ls -> DOMAIN ls] :
             /\ \A k \in DOMAIN ls : g[k] >= k
             /\ \A j, k \in DOMAIN ls : j < k => g[j] <= g[k]}

\* for _, r := range GetRemoteSessionListener() { co.Go...(key, func() {
\* r.ev(...) }) }: the handler hands one closure per registered listener
\* to the task of the key and goes on.
GoTask(m, ev, x, key) ==
    \E g \in Captures(GetRemoteSessionListener) :
       work' = [work EXCEPT
                  !.handlers = IF @ # <<>> /\ Head(@) = m THEN Tail(@) ELSE @,
                  !.tasks = @ \o [k \in DOMAIN g |->
                                    [msg |-> m, ev |-> ev, x |-> x, key |-> key,
                                     k |-> k, r |-> GetRemoteSessionListener[g[k]]]]]

\* Tasks of one key run one after another in the order they were handed
\* over; tasks of different keys run independently.
CanRun(tasks, i) == \A j \in 1..(i - 1) : tasks[j].key # tasks[i].key

RemoveAt(seq, i) == SubSeq(seq, 1, i - 1) \o SubSeq(seq, i + 1, Len(seq))

\* A listener task runs: the closure calls the listener it captured.
RunListener(i) ==
    LET t == work.tasks[i] IN
    /\ i \in 1..Len(work.tasks)
    /\ CanRun(work.tasks, i)
    /\ work' = [work EXCEPT !.tasks = RemoveAt(@, i)]
    /\ heard' = heard \cup {Called(t.msg, t.ev, t.x, t.k, t.r)}
    /\ UNCHANGED <<sess, pool, cache, net, sent, calls, replies>>
    /\ UNCHANGED <<ns, chans, hist>>

\* Sys.SessionBoundFork: the binding listeners are called in the handler.
SessionBoundFork(m) ==
    /\ m \in net /\ m.route = "session.bound.fork"
    /\ net' = net \ {m}
    /\ HearAll(m, "OnUserBind", m.fid, GetRemoteBindingListener)
    /\ Ack(m)
    /\ UNCHANGED <<sess, pool, cache, sent, calls>>
    /\ UNCHANGED nsvars

\* Sys.SessionBound: the frontend data of the local session of the uid is
\* set, one OnUserBound closure per registered listener is handed to the
\* session's task, ack is returned.
SessionBound(m) ==
    LET h == GetSessionByUID(m.to, m.uid) IN
    /\ m \in net /\ m.route = "session.bound"
    /\ net' = net \ {m}
    /\ sess' = IF h # NoSession
               THEN [sess EXCEPT ![h] = SetFrontendData(@, m.fid, m.sid)]
               ELSE sess
    /\ GoTask(m, "OnUserBound", m.fid, GoBySession(m.to, h))
    /\ Ack(m)
    /\ UNCHANGED <<pool, cache, sent, calls, heard>>
    /\ UNCHANGED <<ns, chans, hist>>

\* Sys.SessionClosed: OnUserDisconnected is handed to the uid's task.
SessionClosed(m) ==
    /\ m \in net /\ m.route = "session.closed"
    /\ net' = net \ {m}
    /\ GoTask(m, "OnUserDisconnected", "", GoByUID(m.to, m.uid))
    /\ Ack(m)
    /\ UNCHANGED <<sess, pool, cache, sent, calls, heard>>
    /\ UNCHANGED <<ns, chans, hist>>

\* Sys.SessionBoundBackendFork: the binding listeners are called in the
\* handler.
SessionBoundBackendFork(m) ==
    /\ m \in net /\ m.route = "session.bound.backend.fork"
    /\ net' = net \ {m}
    /\ HearAll(m, "OnUserBindBackend", m.bid, GetRemoteBindingListener)
    /\ Ack(m)
    /\ UNCHANGED <<sess, pool, cache, sent, calls>>
    /\ UNCHANGED nsvars

\* Sys.SessionBoundBackend: OnUserBoundBackend is handed to the uid's task.
SessionBoundBackend(m) ==
    /\ m \in net /\ m.route = "session.bound.backend"
    /\ net' = net \ {m}
    /\ GoTask(m, "OnUserBoundBackend", m.bid, GoByUID(m.to, m.uid))
    /\ Ack(m)
    /\ UNCHANGED <<sess, pool, cache, sent, calls, heard>>
    /\ UNCHANGED <<ns, chans, hist>>

\* Sys.SessionKickedBackend: OnUserUnboundBackend is handed to the uid's
\* task.
SessionKickedBackend(m) ==
    /\ m \in net /\ m.route = "session.kicked.backend"
    /\ net' = net \ {m}
    /\ GoTask(m, "OnUserUnboundBackend", m.bid, GoByUID(m.to, m.uid))
    /\ Ack(m)
    /\ UNCHANGED <<sess, pool, cache, sent, calls, heard>>
    /\ UNCHANGED <<ns, chans, hist>>

\* A server sends the session.push request of a session to a frontend.
RPCPush(to, sid, d) ==
    LET m == [Msg("session.push", to, NoUid, NoServer, sid, "", NoServer, NoMeta,
                  NoUid, "rpc", NoSession,
                  Cardinality({x \in sent : x.route = "session.push"}) + 1)
                EXCEPT !.data = d] IN
    /\ Cardinality({x \in sent : x.route = "session.push"}) < MaxPushes
    /\ Publish({m})
    /\ UNCHANGED <<sess, pool, cache, calls, heard, replies>>
    /\ UNCHANGED nsvars

\* Sys.PushSession: the session of the id takes the encoded data of the
\* request; data that does not decode is an error.
PushSession(m) ==
    LET h == GetSessionByID(m.to, m.sid) IN
    /\ m \in net /\ m.route = "session.push"
    /\ net' = net \ {m}
    /\ IF h = NoSession
       THEN /\ replies' = replies \cup {[msg |-> m, res |-> "ErrSessionNotFound"]}
            /\ UNCHANGED sess
       ELSE IF m.data \notin Datas
       THEN /\ replies' = replies \cup {[msg |-> m, res |-> "ErrDecode"]}
            /\ UNCHANGED sess
       ELSE /\ sess' = [sess EXCEPT ![h] = SetDataEncoded(@, m.data)]
            /\ Ack(m)
    /\ UNCHANGED <<pool, cache, sent, calls, heard>>
    /\ UNCHANGED nsvars

(***************************************************************************)
(* OnBindBackend (sys.go 146-210), driven by Session.BindBackend.          *)
(***************************************************************************)
\* protos.BindBackendMsg built by the callback.
BindBackendMsg(h, uid, btype, md, n) ==
    Msg("session.bind.backend", NoServer, uid, NoServer, 0, btype, Owner(h),
        md, uid, "bindbackend", h, n)

\* Session.BindBackend records the binding on the session and runs the
\* callback; a failed callback undoes the record.
BindBackendCall(h, btype, target, md, pc) ==
    [Call("bindbackend", h, sess[h].uid, md, pc)
       EXCEPT !.btype = btype, !.target = target, !.oldb = sess[h].backends[btype]]

BackendFail(h) == [sess EXCEPT ![h].backends[calls[h].btype] = calls[h].oldb]

CanBindBackend(h) ==
    /\ sess[h].st \in {"Bound", "Ctx"} /\ sess[h].uid # NoUid
    /\ ~Busy(h)
    /\ Ops < MaxOps

\* The target is this server: the callback starts its local steps.
BindBackendStart(h, btype, md) ==
    /\ CanBindBackend(h)
    /\ sess' = [sess EXCEPT ![h].backends[btype] = Owner(h)]
    /\ calls' = [calls EXCEPT ![h] = BindBackendCall(h, btype, Owner(h), md, "check")]
    /\ UNCHANGED <<pool, cache, net, sent, heard, replies>>
    /\ UNCHANGED nsvars

\* Mutant: the forwarding server also stores the session in its own pool.
BindBackendForward_Stores(h, btype, target, md) ==
    LET c == [BindBackendCall(h, btype, target, md, "done") EXCEPT !.ops = <<"notify">>]
        m == [BindBackendMsg(h, sess[h].uid, btype, md, c.n) EXCEPT !.to = target] IN
    /\ CanBindBackend(h)
    /\ target # Owner(h)
    /\ Publish({m})
    /\ calls' = [calls EXCEPT ![h] = c]
    /\ sess' = [sess EXCEPT ![h].backends[btype] = target]
    /\ pool' = [pool EXCEPT ![Owner(h)][sess[h].uid] = h]
    /\ UNCHANGED <<cache, heard, replies>>
    /\ UNCHANGED nsvars

\* The target is another server: the request is forwarded to it.
BindBackendForward(h, btype, target, md) ==
    LET c == [BindBackendCall(h, btype, target, md, "done") EXCEPT !.ops = <<"notify">>]
        m == [BindBackendMsg(h, sess[h].uid, btype, md, c.n) EXCEPT !.to = target] IN
    /\ CanBindBackend(h)
    /\ target # Owner(h)
    /\ \/ /\ Publish({m})
          /\ calls' = [calls EXCEPT ![h] = c]
          /\ sess' = [sess EXCEPT ![h].backends[btype] = target]
       \/ /\ calls' = [calls EXCEPT ![h] =
                          [c EXCEPT !.failed = {"notify"}, !.err = "ErrNotify"]]
          /\ UNCHANGED <<sess, net, sent>>
    /\ UNCHANGED <<pool, cache, heard, replies>>
    /\ UNCHANGED nsvars

SelfStep(h, pc) == calls[h].kind = "bindbackend" /\ calls[h].pc = pc

BindBackendFail(h, op, err) ==
    /\ sess' = BackendFail(h)
    /\ calls' = Fail(h, op, err)
    /\ Reply(h, err)

\* Mutant: the pool is not consulted.
BindBackendCheck_Skip(h) ==
    /\ SelfStep(h, "check")
    /\ calls' = Step(h, "check", "store")
    /\ UNCHANGED <<sess, replies, pool, cache, net, sent, heard>>
    /\ UNCHANGED nsvars

\* GetSessionByUID: a session already stored for the uid is an error.
BindBackendCheck(h) ==
    /\ SelfStep(h, "check")
    /\ IF pool[calls[h].sv][calls[h].uid] # NoSession
       THEN BindBackendFail(h, "check", "ErrSessionAlreadyBound")
       ELSE /\ calls' = Step(h, "check", "store")
            /\ UNCHANGED <<sess, replies>>
    /\ UNCHANGED <<pool, cache, net, sent, heard>>
    /\ UNCHANGED nsvars

BindBackendStore(h) ==
    /\ SelfStep(h, "store")
    /\ \/ /\ pool' = [pool EXCEPT ![calls[h].sv][calls[h].uid] = h]
          /\ calls' = Step(h, "store", "flush")
          /\ UNCHANGED <<sess, replies>>
       \/ /\ BindBackendFail(h, "store", "ErrStore")
          /\ UNCHANGED pool
    /\ UNCHANGED <<cache, net, sent, heard>>
    /\ UNCHANGED nsvars

BindBackendFlush(h) ==
    /\ SelfStep(h, "flush")
    /\ \/ /\ cache' = [cache EXCEPT ![calls[h].uid] = Flush2Cluster(sess[h])]
          /\ calls' = Step(h, "flush", "fork")
          /\ UNCHANGED <<sess, replies>>
       \/ /\ BindBackendFail(h, "flush", "ErrFlush")
          /\ UNCHANGED cache
    /\ UNCHANGED <<pool, net, sent, heard>>
    /\ UNCHANGED nsvars

BindBackendFork(h) ==
    LET m == [BindBackendMsg(h, calls[h].uid, calls[h].btype, calls[h].md, calls[h].n)
                EXCEPT !.route = "session.bound.backend.fork"] IN
    /\ SelfStep(h, "fork")
    /\ \/ /\ Publish(Fork(ServerType(calls[h].sv), m))
          /\ calls' = Step(h, "fork", "notify")
          /\ UNCHANGED <<sess, replies>>
       \/ /\ BindBackendFail(h, "fork", "ErrFork")
          /\ UNCHANGED <<net, sent>>
    /\ UNCHANGED <<pool, cache, heard>>
    /\ UNCHANGED nsvars

\* The loop over the server types of discovery, the own type included:
\* each turn is one Notify of one type, resolved to one server of it; a
\* failed Notify ends the loop.
BindBackendNotify(h) ==
    LET m == [BindBackendMsg(h, calls[h].uid, calls[h].btype, calls[h].md, calls[h].n)
                EXCEPT !.route = "session.bound.backend"] IN
    /\ SelfStep(h, "notify")
    /\ \E t \in ServerTypes \ calls[h].notified :
          \/ \E sv \in ServersOfType(t) :
                /\ Publish({[m EXCEPT !.to = sv]})
                /\ IF calls[h].notified \cup {t} = ServerTypes
                   THEN /\ calls' = [Step(h, "notify", "done") EXCEPT ![h].notified = @ \cup {t}]
                        /\ Reply(h, "OK")
                   ELSE /\ calls' = [Step(h, "notify", "notify") EXCEPT ![h].notified = @ \cup {t}]
                        /\ UNCHANGED replies
                /\ UNCHANGED sess
          \/ /\ BindBackendFail(h, "notify", "ErrNotify")
             /\ UNCHANGED <<net, sent>>
    /\ UNCHANGED <<pool, cache, heard>>
    /\ UNCHANGED nsvars

\* A server calls the session.bind.backend remote of another server
\* directly, for the uid of its session or for another one, with or without
\* the session in the request.
RPCBindBackend(h, to, uid, btype, bid, withSession) ==
    LET m == [BindBackendMsg(h, uid, btype, NoMeta, calls[h].n + 1)
                EXCEPT !.to = to, !.bid = bid, !.kind = "rpc",
                       !.suid = IF withSession THEN sess[h].uid ELSE NoUid] IN
    /\ CanBindBackend(h)
    /\ to # Owner(h)
    /\ Publish({m})
    /\ calls' = [calls EXCEPT ![h] =
                   [Call("rpc", h, sess[h].uid, NoMeta, "done") EXCEPT !.ops = <<"rpc">>]]
    /\ UNCHANGED <<sess, pool, cache, heard, replies>>
    /\ UNCHANGED nsvars

\* Sys.BindBackendSession (sys.go 322-339)
BindBackendSession(m) ==
    LET sv == m.to
        found == GetSessionByUID(sv, m.uid)
        res(r) == replies' = replies \cup {[msg |-> m, res |-> r]} IN
    /\ m \in net /\ m.route = "session.bind.backend"
    /\ net' = net \ {m}
    /\ IF found = NoSession /\ m.suid = NoUid
       THEN \* sess.UID() on the nil session of the context
            /\ res("panic")
            /\ UNCHANGED <<sess, calls>>
       ELSE IF m.btype # ServerType(sv) \/ m.bid # sv
       THEN /\ res("ErrIllegalBindBackendID")
            /\ UNCHANGED <<sess, calls>>
       ELSE IF found # NoSession
       THEN \* BindBackend on the stored session: the callback's check fails
            /\ res("ErrSessionAlreadyBound")
            /\ UNCHANGED <<sess, calls>>
       ELSE \E g \in FreeCtx(sv) :
            /\ g = CHOOSE x \in FreeCtx(sv) : \A y \in FreeCtx(sv) : SessionID(x) >= SessionID(y)
            /\ sess' = [sess EXCEPT ![g] = [sess[m.by] EXCEPT !.uid = m.suid, !.st = "Ctx",
                                                               !.backends[ServerType(sv)] = sv]]
            /\ calls' = [calls EXCEPT ![g] =
                           [Idle EXCEPT !.kind = "bindbackend", !.n = calls[g].n,
                                        !.sv = sv, !.uid = m.suid, !.md = m.md,
                                        !.pc = "check", !.olddata = sess[m.by].data,
                                        !.btype = ServerType(sv), !.target = sv,
                                        !.oldb = sess[m.by].backends[ServerType(sv)],
                                        !.via = m]]
            /\ UNCHANGED replies
    /\ UNCHANGED <<pool, cache, sent, heard>>
    /\ UNCHANGED nsvars

(***************************************************************************)
(* OnKickBackend (sys.go 211-257), driven by Session.KickBackend.          *)
(***************************************************************************)
\* protos.BindBackendMsg built by the callback.
KickBackendMsg(h, uid, btype, md, n) ==
    Msg("session.kicked.backend", NoServer, uid, NoServer, 0, btype, Owner(h),
        md, uid, "kick", h, n)

\* Session.KickBackend clears the binding on the session and runs the
\* callback; a failed callback undoes the clearing.
KickBackendCall(h, btype, target, reason, md, pc) ==
    [Call("kick", h, sess[h].uid, md, pc)
       EXCEPT !.btype = btype, !.target = target, !.reason = reason,
              !.oldb = sess[h].backends[btype]]

\* SessionPool.RemoveSessionLocal
RemoveSessionLocal(sv, h) ==
    [pool EXCEPT ![sv] = [u \in Uids |-> IF @[u] = h THEN NoSession ELSE @[u]]]

\* The target is this server: the session leaves the pool; a kick of
\* reason Rebind returns at once.
KickBackendStart(h, reason, md) ==
    LET btype == ServerType(Owner(h))
        c == KickBackendCall(h, btype, Owner(h), reason, md, "flush") IN
    /\ CanBindBackend(h)
    /\ sess' = [sess EXCEPT ![h].backends[btype] = NoServer]
    /\ pool' = RemoveSessionLocal(Owner(h), h)
    /\ calls' = [calls EXCEPT ![h] =
                   IF reason = "Rebind"
                   THEN [c EXCEPT !.pc = "done", !.ops = <<"remove">>]
                   ELSE [c EXCEPT !.ops = <<"remove">>]]
    /\ UNCHANGED <<cache, net, sent, heard, replies>>
    /\ UNCHANGED nsvars

KickStep(h, pc) == calls[h].kind = "kick" /\ calls[h].pc = pc

KickBackendFail(h, op, err) ==
    /\ sess' = BackendFail(h)
    /\ calls' = Fail(h, op, err)
    /\ Reply(h, err)

KickBackendFlush(h) ==
    /\ KickStep(h, "flush")
    /\ \/ /\ cache' = [cache EXCEPT ![calls[h].uid] = Flush2Cluster(sess[h])]
          /\ calls' = Step(h, "flush", "notify")
          /\ UNCHANGED <<sess, replies>>
       \/ /\ KickBackendFail(h, "flush", "ErrFlush")
          /\ UNCHANGED cache
    /\ UNCHANGED <<pool, net, sent, heard>>
    /\ UNCHANGED nsvars

\* One Notify with an empty server id: discovery resolves one server.
KickBackendNotify(h) ==
    LET m == KickBackendMsg(h, calls[h].uid, calls[h].btype, calls[h].md, calls[h].n) IN
    /\ KickStep(h, "notify")
    /\ \/ \E sv \in Servers :
             /\ Publish({[m EXCEPT !.to = sv]})
             /\ calls' = Step(h, "notify", "done")
             /\ Reply(h, "OK")
             /\ UNCHANGED sess
       \/ /\ KickBackendFail(h, "notify", "ErrNotify")
          /\ UNCHANGED <<net, sent>>
    /\ UNCHANGED <<pool, cache, heard>>
    /\ UNCHANGED nsvars

\* Mutant: the forwarding server also drops the session from its own pool.
KickBackendForward_Removes(h, btype, target, reason, md) ==
    LET c == [KickBackendCall(h, btype, target, reason, md, "done") EXCEPT !.ops = <<"notify">>]
        m == [KickBackendMsg(h, sess[h].uid, btype, md, c.n)
                EXCEPT !.to = target, !.route = "kick.backend"] IN
    /\ CanBindBackend(h)
    /\ target # Owner(h)
    /\ Publish({m})
    /\ calls' = [calls EXCEPT ![h] = c]
    /\ sess' = [sess EXCEPT ![h].backends[btype] = NoServer]
    /\ pool' = RemoveSessionLocal(Owner(h), h)
    /\ UNCHANGED <<cache, heard, replies>>
    /\ UNCHANGED nsvars

\* The target is another server: the kick is forwarded to it.
KickBackendForward(h, btype, target, reason, md) ==
    LET c == [KickBackendCall(h, btype, target, reason, md, "done") EXCEPT !.ops = <<"notify">>]
        m == [KickBackendMsg(h, sess[h].uid, btype, md, c.n)
                EXCEPT !.to = target, !.route = "kick.backend"] IN
    /\ CanBindBackend(h)
    /\ target # Owner(h)
    /\ \/ /\ Publish({m})
          /\ calls' = [calls EXCEPT ![h] = c]
          /\ sess' = [sess EXCEPT ![h].backends[btype] = NoServer]
       \/ /\ calls' = [calls EXCEPT ![h] =
                          [c EXCEPT !.failed = {"notify"}, !.err = "ErrNotify"]]
          /\ UNCHANGED <<sess, net, sent>>
    /\ UNCHANGED <<pool, cache, heard, replies>>
    /\ UNCHANGED nsvars

\* Sys.KickBackend (sys.go 348-355): without a session of the user in the
\* pool it returns ErrSessionNotFound; else it calls Session.KickBackend
\* for the type of this server, which clears the binding on the session and
\* runs the callback for the server the session is bound to: this server
\* (the local steps follow), another one (the kick is forwarded), or none
\* (an error).  The handler waits for a running invocation of the session.
KickBackend(m) ==
    LET sv == m.to
        h == GetSessionByUID(sv, m.uid)
        btype == ServerType(sv)
        target == sess[h].backends[btype]
        c == [KickBackendCall(h, btype, target, "Normal", m.md, "flush")
                EXCEPT !.via = m, !.n = calls[h].n]
        fwd == [KickBackendMsg(h, sess[h].uid, btype, m.md, calls[h].n)
                  EXCEPT !.to = target, !.route = "kick.backend", !.bid = sv]
        res(r) == replies' = replies \cup {[msg |-> m, res |-> r]} IN
    /\ m \in net /\ m.route = "kick.backend"
    /\ IF h = NoSession
       THEN /\ res("ErrSessionNotFound")
            /\ net' = net \ {m}
            /\ UNCHANGED <<sess, pool, calls, sent>>
       ELSE /\ ~Busy(h)
            /\ IF target = sv
               THEN /\ sess' = [sess EXCEPT ![h].backends[btype] = NoServer]
                    /\ pool' = RemoveSessionLocal(sv, h)
                    /\ calls' = [calls EXCEPT ![h] = [c EXCEPT !.ops = <<"remove">>]]
                    /\ net' = net \ {m}
                    /\ UNCHANGED <<sent, replies>>
               ELSE IF target = NoServer
               THEN /\ res("ErrSessionNotBound")
                    /\ net' = net \ {m}
                    /\ UNCHANGED <<sess, pool, calls, sent>>
               ELSE \/ /\ net' = (net \ {m}) \cup {fwd}
                       /\ sent' = sent \cup {fwd}
                       /\ sess' = [sess EXCEPT ![h].backends[btype] = NoServer]
                       /\ calls' = [calls EXCEPT ![h] =
                                       [c EXCEPT !.pc = "done", !.ops = <<"notify">>]]
                       /\ res("ack")
                       /\ UNCHANGED pool
                    \/ /\ net' = net \ {m}
                       /\ calls' = [calls EXCEPT ![h] =
                                       [c EXCEPT !.pc = "done", !.ops = <<"notify">>,
                                                 !.failed = {"notify"}, !.err = "ErrNotify"]]
                       /\ res("ErrNotify")
                       /\ UNCHANGED <<sess, pool, sent>>
    /\ UNCHANGED <<cache, heard>>
    /\ UNCHANGED nsvars

\* A backend forwards Session.Bind of the session of a request to the
\* frontend that holds the session.
RPCBind(to, sid, uid, md) ==
    LET m == Msg("session.bind", to, uid, NoServer, sid, "", NoServer, md, NoUid,
                 "rpc", NoSession,
                 Cardinality({x \in sent : x.route = "session.bind"}) + 1) IN
    /\ Cardinality({x \in sent : x.route = "session.bind"}) < MaxRPCBinds
    /\ Publish({m})
    /\ UNCHANGED <<sess, pool, cache, calls, heard, replies>>
    /\ UNCHANGED nsvars

\* Sys.BindSession (sys.go 265-275): without a session of the id it returns
\* ErrSessionNotFound; else it calls Session.Bind, which refuses a session
\* that has a uid, and else sets the uid and runs the callback, whose
\* result the handler returns.
BindSession(m) ==
    LET h == GetSessionByID(m.to, m.sid)
        res(r) == replies' = replies \cup {[msg |-> m, res |-> r]} IN
    /\ m \in net /\ m.route = "session.bind"
    /\ net' = net \ {m}
    /\ IF h = NoSession
       THEN /\ res("ErrSessionNotFound")
            /\ UNCHANGED <<sess, calls>>
       ELSE IF sess[h].uid # NoUid
       THEN /\ res("ErrSessionAlreadyBound")
            /\ UNCHANGED <<sess, calls>>
       ELSE /\ ~Busy(h)
            /\ sess' = [sess EXCEPT ![h].uid = m.uid]
            /\ calls' = [calls EXCEPT ![h] =
                           [Call("bind", h, m.uid, m.md, "obtain") EXCEPT !.via = m]]
            /\ UNCHANGED replies
    /\ UNCHANGED <<pool, cache, sent, heard>>
    /\ UNCHANGED nsvars

\* The frontend binding machine: Session.Bind on the frontends' sessions,
\* every step of the callback succeeding or failing.
Next ==
    \/ \E h \in FrontSessions : SetData(h)
    \/ \E h \in FrontSessions, u \in Uids, md \in Metas : BindStart(h, u, md)
    \/ \E h \in FrontSessions : BindObtain(h)
    \/ \E h \in FrontSessions : BindFlush(h)
    \/ \E h \in FrontSessions : BindBroadcast(h)
    \/ \E h \in FrontSessions : BindFork(h)
    \/ \E h \in FrontSessions : BindNotifyAll(h)

Spec == Init /\ [][Next]_vars

\* Binds and closes: sessions of the frontends and a context session of a
\* backend are bound and closed.
NextClose ==
    \/ \E h \in FrontSessions, u \in Uids, md \in Metas : BindStart(h, u, md)
    \/ \E h \in FrontSessions : BindObtain(h)
    \/ \E h \in FrontSessions : BindFlush(h)
    \/ \E h \in FrontSessions : BindBroadcast(h)
    \/ \E h \in FrontSessions : BindFork(h)
    \/ \E h \in FrontSessions : BindNotifyAll(h)
    \/ \E h \in Handles, r \in CloseReasons, md \in Metas : OnSessionClose(h, r, md)
    \/ \E fh \in FrontSessions : CtxRequest(<<"B1", -1>>, fh)

SpecClose == Init /\ [][NextClose]_vars

\* The fan-out of binds: binds on the frontends and the handlers run for
\* the messages they publish.
NextFanout ==
    \/ \E h \in FrontSessions, u \in Uids, md \in Metas : BindStart(h, u, md)
    \/ \E h \in FrontSessions : BindObtain(h)
    \/ \E h \in FrontSessions : BindFlush(h)
    \/ \E h \in FrontSessions : BindBroadcast(h)
    \/ \E h \in FrontSessions : BindFork(h)
    \/ \E h \in FrontSessions : BindNotifyAll(h)
    \/ \E m \in net : SessionBoundFork(m)
    \/ \E m \in net : SessionBound(m)
    \/ \E i \in DOMAIN work.tasks : RunListener(i)

SpecFanout == Init /\ [][NextFanout]_vars

\* Backend binding, from the state in which F1 holds the bound session of
\* u1 and the messages of that bind have been handled.
BoundF1 == [uid |-> "u1", fid |-> "F1", fsid |-> 1, data |-> "d0",
            backends |-> NoBackends, st |-> "Bound"]

InitBackendOf(w) ==
    /\ sess = [h \in Handles |->
                 IF h = <<"F1", 1>> THEN BoundF1
                 ELSE IF h \in FrontSessions THEN NewSession
                 ELSE [NewSession EXCEPT !.st = "Absent"]]
    /\ pool = [sv \in Servers |-> [u \in Uids |->
                 IF sv = "F1" /\ u = "u1" THEN <<"F1", 1>> ELSE NoSession]]
    /\ cache = [u \in Uids |-> IF u = "u1" THEN Flush2Cluster(BoundF1) ELSE NoRecord]
    /\ net = {}
    /\ sent = {}
    /\ calls = [h \in Handles |-> Idle]
    /\ heard = {}
    /\ replies = {}
    /\ ns = NoEngine /\ chans = NoChans /\ work = w /\ hist = NoHist

InitBackend == InitBackendOf(ListenerWork)

\* The same with none, one or several session listeners registered, and
\* either capture of the loop variable.
InitBound ==
    \E ls \in ListenerLists, v \in LoopVars :
       InitBackendOf([ListenerWork EXCEPT !.listeners = ls, !.loopvar = v])

NextBackend ==
    \/ \E bh \in BackSessions : CtxRequest(bh, <<"F1", 1>>)
    \/ \E h \in Handles, md \in Metas : BindBackendStart(h, ServerType(Owner(h)), md)
    \/ \E h \in Handles, t \in ServerTypes, sv \in {"B1", "B2"}, md \in Metas :
          BindBackendForward(h, t, sv, md)
    \/ \E h \in Handles : BindBackendCheck(h)
    \/ \E h \in Handles : BindBackendStore(h)
    \/ \E h \in Handles : BindBackendFlush(h)
    \/ \E h \in Handles : BindBackendFork(h)
    \/ \E h \in Handles : BindBackendNotify(h)
    \/ \E uid \in Uids, t \in ServerTypes, bid \in {"B1", "B2"}, ws \in BOOLEAN :
          RPCBindBackend(<<"F1", 1>>, "B1", uid, t, bid, ws)
    \/ \E m \in net : BindBackendSession(m)

SpecBackend == InitBackend /\ [][NextBackend]_vars

\* Backend binds and kicks of the sessions of u1.
NextKick ==
    \/ \E bh \in BackSessions : CtxRequest(bh, <<"F1", 1>>)
    \/ \E h \in BackSessions, md \in Metas : BindBackendStart(h, ServerType(Owner(h)), md)
    \/ \E h \in BackSessions : BindBackendCheck(h)
    \/ \E h \in BackSessions : BindBackendStore(h)
    \/ \E h \in BackSessions : BindBackendFlush(h)
    \/ \E h \in BackSessions : BindBackendFork(h)
    \/ \E h \in BackSessions : BindBackendNotify(h)
    \/ \E h \in Handles, r \in CloseReasons, md \in Metas : KickBackendStart(h, r, md)
    \/ \E h \in Handles : KickBackendFlush(h)
    \/ \E h \in Handles : KickBackendNotify(h)
    \/ \E h \in Handles, sv \in {"B1", "B2"}, r \in CloseReasons, md \in Metas :
          KickBackendForward(h, "game", sv, r, md)

SpecKick == InitBackend /\ [][NextKick]_vars

\* session.bind.backend requests sent to B1 for the uid of the sender's
\* session or for another uid, and the binds they start.
NextLookup ==
    \/ \E bh \in BackSessions : CtxRequest(bh, <<"F1", 1>>)
    \/ \E uid \in Uids \cup {OtherUid}, t \in ServerTypes, bid \in {"B1", "B2"},
          ws \in BOOLEAN :
          RPCBindBackend(<<"F1", 1>>, "B1", uid, t, bid, ws)
    \/ \E m \in net : BindBackendSession(m)
    \/ \E h \in Handles : BindBackendCheck(h)
    \/ \E h \in Handles : BindBackendStore(h)
    \/ \E h \in Handles : BindBackendFlush(h)
    \/ \E h \in Handles : BindBackendFork(h)
    \/ \E h \in Handles : BindBackendNotify(h)

SpecLookup == InitBackend /\ [][NextLookup]_vars

\* A frontend bind of u1 on F2 while the backend B1 binds the context
\* session of a request that u1 sent through F1.
NextRace ==
    \/ CtxRequest(<<"B1", -1>>, <<"F1", 1>>)
    \/ \E md \in Metas : BindBackendStart(<<"B1", -1>>, "game", md)
    \/ BindBackendCheck(<<"B1", -1>>)
    \/ BindBackendStore(<<"B1", -1>>)
    \/ BindBackendFlush(<<"B1", -1>>)
    \/ BindBackendFork(<<"B1", -1>>)
    \/ BindBackendNotify(<<"B1", -1>>)
    \/ \E u \in Uids, md \in Metas : BindStart(<<"F2", 2>>, u, md)
    \/ BindObtain(<<"F2", 2>>)
    \/ BindFlush(<<"F2", 2>>)
    \/ BindBroadcast(<<"F2", 2>>)
    \/ BindFork(<<"F2", 2>>)
    \/ BindNotifyAll(<<"F2", 2>>)

SpecRace == InitBackend /\ [][NextRace]_vars

\* Mutant: the callback runs its frontend steps on any server.
BindNotFrontend_Runs(h, md) ==
    /\ h \in BackSessions /\ ~IsFrontend(Owner(h))
    /\ Ops < MaxOps
    /\ sess[h].st = "Ctx" /\ ~Busy(h)
    /\ calls' = [calls EXCEPT ![h] = Call("bind", h, sess[h].uid, md, "obtain")]
    /\ UNCHANGED <<sess, pool, cache, net, sent, heard, replies>>
    /\ UNCHANGED nsvars

\* The OnSessionBind callback on a server that is not a frontend, run for
\* the session of a request: it returns nil at once.
BindNotFrontend(h, md) ==
    /\ h \in BackSessions /\ ~IsFrontend(Owner(h))
    /\ Ops < MaxOps
    /\ sess[h].st = "Ctx" /\ ~Busy(h)
    /\ calls' = [calls EXCEPT ![h] = Call("bind", h, sess[h].uid, md, "done")]
    /\ UNCHANGED <<sess, pool, cache, net, sent, heard, replies>>
    /\ UNCHANGED nsvars

\* Binds on the frontend F2 and on the backend B1, beside the backend
\* binding of B1.
NextNotFrontend ==
    \/ NextRace
    \/ \E h \in BackSessions : CtxRequest(h, <<"F1", 1>>)
    \/ \E h \in BackSessions, md \in Metas : BindNotFrontend(h, md)

SpecNotFrontend == InitBackend /\ [][NextNotFrontend]_vars

\* The same with the session.bound notifications of the bind on F2 handled
\* by the backends that receive them.
NextBound ==
    \/ NextRace
    \/ \E m \in net : SessionBound(m)
    \/ \E i \in DOMAIN work.tasks : RunListener(i)

SpecBound == InitBound /\ [][NextBound]_vars

\* The backend binding of B1 and the kick of it that F1 forwards, with the
\* handlers of every message they publish and the listener tasks.
NextRemotes ==
    \/ CtxRequest(<<"B1", -1>>, <<"F1", 1>>)
    \/ \E md \in Metas : BindBackendStart(<<"B1", -1>>, "game", md)
    \/ BindBackendCheck(<<"B1", -1>>)
    \/ BindBackendStore(<<"B1", -1>>)
    \/ BindBackendFlush(<<"B1", -1>>)
    \/ BindBackendFork(<<"B1", -1>>)
    \/ BindBackendNotify(<<"B1", -1>>)
    \/ \E sv \in {"B1", "B2"}, md \in Metas :
          KickBackendForward(<<"F1", 1>>, "game", sv, "Normal", md)
    \/ \E m \in net : KickBackend(m)
    \/ KickBackendFlush(<<"B1", -1>>)
    \/ KickBackendNotify(<<"B1", -1>>)
    \/ \E m \in net : SessionBoundBackendFork(m)
    \/ \E m \in net : SessionBoundBackend(m)
    \/ \E m \in net : SessionKickedBackend(m)
    \/ \E i \in DOMAIN work.tasks : RunListener(i)

SpecRemotes == InitBackend /\ [][NextRemotes]_vars

\* Binds and pushes that backends forward to the frontends, beside the
\* binds the frontends start themselves.
NextFrontRemotes ==
    \/ \E u \in Uids, md \in Metas : BindStart(<<"F1", 1>>, u, md)
    \/ \E sid \in {1, 2}, u \in Uids, md \in Metas : RPCBind("F1", sid, u, md)
    \/ \E m \in net : BindSession(m)
    \/ BindObtain(<<"F1", 1>>)
    \/ BindFlush(<<"F1", 1>>)
    \/ BindBroadcast(<<"F1", 1>>)
    \/ BindFork(<<"F1", 1>>)
    \/ BindNotifyAll(<<"F1", 1>>)
    \/ \E sid \in {1, 2}, d \in {"d1", "bad"} : RPCPush("F1", sid, d)
    \/ \E m \in net : PushSession(m)

SpecFrontRemotes == Init /\ [][NextFrontRemotes]_vars

(***************************************************************************)
(* Sys.Kick (sys.go 299-313): the kick of a local user.                    *)
(***************************************************************************)
\* Kick requests sent in the cluster.
MaxKicks == 2

KickRequests == {m \in sent : m.route = "kick"}

\* A server sends the kick request of a user to a server.
RPCKick(to, uid, md) ==
    LET m == Msg("kick", to, uid, NoServer, 0, "", NoServer, md, NoUid, "rpc",
                 NoSession, Cardinality(KickRequests) + 1) IN
    /\ Cardinality(KickRequests) < MaxKicks
    /\ Publish({m})
    /\ UNCHANGED <<sess, pool, cache, calls, heard, replies>>
    /\ UNCHANGED nsvars

\* The KickAnswer and the error the handler returns.
KickAnswer(m, kicked, err) == [msg |-> m, res |-> err, kicked |-> kicked]

\* Mutant: the answer says kicked whenever a session was found.
KickResult_Found(err) == TRUE

\* The kicked field after Session.Kick returned err.
KickResult(err) == err = "OK"

\* Sys.Kick: without a session of the user in the pool it returns
\* kicked = false and ErrSessionNotFound; else it calls Session.Kick, which
\* returns an error, or sends the kick to the client and closes the session
\* with the metadata of the request, and returns kicked = true only after
\* nil.
Kick(m, err) ==
    LET found == GetSessionByUID(m.to, m.uid) IN
    /\ m \in net /\ m.route = "kick"
    /\ IF found = NoSession
       THEN /\ replies' = replies \cup {KickAnswer(m, FALSE, "ErrSessionNotFound")}
            /\ net' = net \ {m}
            /\ UNCHANGED <<heard, sess, pool, sent, calls>>
       ELSE /\ Hear(m, "Kick", err)
            /\ replies' = replies \cup {KickAnswer(m, KickResult(err), err)}
            /\ IF err = "OK"
               THEN SessionCloses(found, "Normal", m.md, {m})
               ELSE /\ net' = net \ {m}
                    /\ UNCHANGED <<sess, pool, sent, calls>>
    /\ UNCHANGED cache
    /\ UNCHANGED nsvars

\* Kick requests for u1, whose session F1 holds until it is closed.
NextKickUser ==
    \/ \E to \in Servers, uid \in Uids, md \in Metas \cup {NoMeta} : RPCKick(to, uid, md)
    \/ \E m \in net, err \in {"OK", "ErrKick"} : Kick(m, err)
    \/ \E r \in CloseReasons, md \in Metas : OnSessionClose(<<"F1", 1>>, r, md)

SpecKickUser == InitBackend /\ [][NextKickUser]_vars

(***************************************************************************)
(* The RPC server engine (cluster/nats_rpc_server.go) of one server.        *)
(***************************************************************************)
\* Configurations (config.NatsRPCServerConfig) and publish registrations.
MaxBuffer == 2
Connects == {"", "nats://broker"}
Sizes == -1..MaxBuffer
ServiceCounts == {0, 1}
Configs == [services : ServiceCounts, connect : Connects, messages : Sizes, push : Sizes]
Topics == {"t1", "t2"}
GroupArgs == {<<>>, <<"g1">>, <<"g2", "g1">>}
NoGroup == "-"
\* Subscribe calls made on one engine.
MaxSubscribes == 3

\* Subjects.
GetBindBroadcastTopic(svType) == "pitaya/" \o svType \o "/bindings"
GetForkTopic(svrType) == "pitaya.fork." \o svrType
GetPublishTopic(topic) == "pitaya.publish." \o topic
PublishTopics == {GetPublishTopic(t) : t \in Topics}

\* Mutant: the push buffer size is not looked at.
configure_NoPush(cfg) ==
    IF cfg.connect = "" THEN "ErrNoNatsConnectionString"
    ELSE IF cfg.messages = 0 THEN "ErrNatsMessagesBufferSizeZero"
    ELSE IF cfg.messages < 0 \/ cfg.push < 0 \/ cfg.services < 0 THEN "panic"
    ELSE "OK"

\* NatsRPCServer.configure: the error it returns; a negative size makes the
\* allocation of the channels or of the request slots fault.
configure(cfg) ==
    IF cfg.connect = "" THEN "ErrNoNatsConnectionString"
    ELSE IF cfg.messages = 0 THEN "ErrNatsMessagesBufferSizeZero"
    ELSE IF cfg.push = 0 THEN "ErrNatsPushBufferSizeZero"
    ELSE IF cfg.messages < 0 \/ cfg.push < 0 \/ cfg.services < 0 THEN "panic"
    ELSE "OK"

NoSubs == [t \in PublishTopics |-> NoGroup]
NoBroker == [t \in PublishTopics |-> <<>>]
NoReturn == [op |-> "", topic |-> "", err |-> "OK"]

\* The workers Init starts beside the demultiplex task: processMessages,
\* processSessionBindings, processPushes and processKick.
IdleWorkers == [dispatch |-> "idle", bindings |-> "idle", push |-> "idle", kick |-> "idle"]
StartedWorkers == [dispatch |-> "running", bindings |-> "running",
                   push |-> "running", kick |-> "running"]

\* No Subscribe call is running.
NoCall == [topic |-> "", group |-> "", how |-> ""]

\* The engine NewNatsRPCServer builds: no connection, no subscription of
\* its own subject (sub) or of the fork subject (broadcastSubs), dropped 0,
\* stopChan open, no task started.  pc is the broker call Init waits for,
\* todo the publish topics its loop began with, call the Subscribe call
\* that has read the maps and the connection and has not returned.
NewEngine(cfg) ==
    [status |-> "new", err |-> "OK", cfg |-> cfg, conn |-> FALSE,
     preparePubSubTopics |-> NoSubs, publishSubs |-> NoSubs,
     nsubs |-> 0, ret |-> NoReturn,
     sub |-> FALSE, broadcastSubs |-> 0, dropped |-> 0,
     stop |-> FALSE, closed |-> FALSE, demux |-> "idle", workers |-> IdleWorkers,
     pc |-> "", todo |-> {}, call |-> NoCall]

\* The engine after an Init that returned nil.
RunningEngine(cfg) ==
    [NewEngine(cfg) EXCEPT !.status = "running", !.conn = TRUE, !.sub = TRUE,
                           !.broadcastSubs = 1, !.demux = "running",
                           !.workers = StartedWorkers]

EmptyChans == [subChan |-> <<>>, bindingsChan |-> <<>>,
               userPushCh |-> <<>>, userKickCh |-> <<>>]

\* Nothing went through the engine yet: the broker subscriptions made for
\* each publish topic and the group of the topic's first registration.
NewHist == [broker |-> NoBroker, first |-> NoSubs, overlap |-> FALSE]

NewNatsRPCServer(cfg) ==
    /\ ns.status = "none"
    /\ IF configure(cfg) = "OK"
       THEN /\ ns' = NewEngine(cfg)
            /\ chans' = EmptyChans
       ELSE /\ ns' = [status |-> "failed", err |-> configure(cfg), cfg |-> cfg]
            /\ UNCHANGED chans
    /\ UNCHANGED <<work, hist>>
    /\ UNCHANGED sysvars

\* conn.ChanSubscribe / conn.ChanQueueSubscribe of a publish topic.
BrokerSubscribe(h, topic, group) == [h EXCEPT !.broker[topic] = Append(@, group)]

\* NatsRPCServer.Subscribe, called by one caller at a time: it looks the
\* topic up in publishSubs and preparePubSubTopics and returns nil for a
\* known one; else it reads ns.conn and goes on to register the topic as
\* pending (no connection) or to subscribe it at the broker.
Subscribe(t, groups) ==
    LET topic == GetPublishTopic(t)
        group == IF Len(groups) > 0 THEN groups[1] ELSE ""
        known == \/ ns.publishSubs[topic] # NoGroup
                 \/ ns.preparePubSubTopics[topic] # NoGroup
        how == IF known THEN "known" ELSE IF ~ns.conn THEN "prepare" ELSE "subscribe" IN
    /\ ns.status \in {"new", "initializing", "running", "initfailed"}
    /\ ns.call = NoCall
    /\ ns.nsubs < MaxSubscribes
    /\ ns' = [ns EXCEPT !.nsubs = @ + 1,
                        !.call = [topic |-> topic, group |-> group, how |-> how]]
    /\ hist' = [hist EXCEPT !.overlap = @ \/ ns.status = "initializing"]
    /\ UNCHANGED <<chans, work>>
    /\ UNCHANGED sysvars

\* The Subscribe call goes on and returns: the pending topic is written to
\* preparePubSubTopics; or the broker's subscribe call returns, with a
\* subscription that is written to publishSubs or with an error.
SubscribeReturn ==
    LET c == ns.call
        ret(err) == [op |-> "Subscribe", topic |-> c.topic, err |-> err] IN
    /\ ns.status \in {"new", "initializing", "running", "initfailed"}
    /\ c # NoCall
    /\ IF c.how = "known"
       THEN /\ ns' = [ns EXCEPT !.call = NoCall, !.ret = ret("OK")]
            /\ UNCHANGED hist
       ELSE IF c.how = "prepare"
       THEN /\ ns' = [ns EXCEPT !.call = NoCall, !.ret = ret("OK"),
                                !.preparePubSubTopics[c.topic] = c.group]
            /\ hist' = [hist EXCEPT !.first[c.topic] = c.group]
       ELSE \/ /\ ns' = [ns EXCEPT !.call = NoCall, !.ret = ret("OK"),
                                   !.publishSubs[c.topic] = c.group]
               /\ hist' = [BrokerSubscribe(hist, c.topic, c.group)
                             EXCEPT !.first[c.topic] = c.group]
            \/ /\ ns' = [ns EXCEPT !.call = NoCall, !.ret = ret("ErrSubscribe")]
               /\ UNCHANGED hist
    /\ UNCHANGED <<chans, work>>
    /\ UNCHANGED sysvars

Pending == {t \in PublishTopics : ns.preparePubSubTopics[t] # NoGroup}

\* Init returns the error of the broker call it waited for.
InitFails(stage) ==
    ns' = [ns EXCEPT !.status = "initfailed", !.err = "Err" \o stage, !.pc = ""]

\* NatsRPCServer.Init starts the demultiplex task and asks for the
\* connection.
NatsInit ==
    /\ ns.status = "new"
    /\ ns' = [ns EXCEPT !.status = "initializing", !.demux = "running",
                        !.pc = "connect", !.ret = NoReturn]
    /\ hist' = [hist EXCEPT !.overlap = @ \/ ns.call # NoCall]
    /\ UNCHANGED <<chans, work>>
    /\ UNCHANGED sysvars

\* setupNatsConn returns: ns.conn is set and the subscription of the own
\* subject is asked for.
InitConnect(ok) ==
    /\ ns.status = "initializing" /\ ns.pc = "connect"
    /\ IF ok THEN ns' = [ns EXCEPT !.conn = TRUE, !.pc = "subscribe"]
       ELSE InitFails("connect")
    /\ UNCHANGED <<chans, work, hist>>
    /\ UNCHANGED sysvars

\* The subscription of the own subject returns: ns.sub is set and the
\* subscription of the fork subject is asked for.
InitSubscribe(ok) ==
    /\ ns.status = "initializing" /\ ns.pc = "subscribe"
    /\ IF ok THEN ns' = [ns EXCEPT !.sub = TRUE, !.pc = "fork"]
       ELSE InitFails("subscribe")
    /\ UNCHANGED <<chans, work, hist>>
    /\ UNCHANGED sysvars

\* Mutant: the loop over the pending publish topics is left out.
InitFork_NoPending(ok) ==
    /\ ns.status = "initializing" /\ ns.pc = "fork"
    /\ IF ok THEN ns' = [ns EXCEPT !.broadcastSubs = 1, !.pc = "publish", !.todo = {}]
       ELSE InitFails("fork")
    /\ UNCHANGED <<chans, work, hist>>
    /\ UNCHANGED sysvars

\* The subscription of the fork subject returns: it is appended to
\* broadcastSubs and the loop over preparePubSubTopics begins.
InitFork(ok) ==
    /\ ns.status = "initializing" /\ ns.pc = "fork"
    /\ IF ok THEN ns' = [ns EXCEPT !.broadcastSubs = 1, !.pc = "publish", !.todo = Pending]
       ELSE InitFails("fork")
    /\ UNCHANGED <<chans, work, hist>>
    /\ UNCHANGED sysvars

\* One turn of the loop: the subscription of a pending topic returns and is
\* written to publishSubs.  The loop visits every topic it began with; a
\* topic written to the map while it runs is visited or not.
InitPublish(t, ok) ==
    /\ ns.status = "initializing" /\ ns.pc = "publish"
    /\ t \in Pending /\ ns.publishSubs[t] = NoGroup
    /\ IF ok
       THEN /\ ns' = [ns EXCEPT !.publishSubs[t] = ns.preparePubSubTopics[t]]
            /\ hist' = BrokerSubscribe(hist, t, ns.preparePubSubTopics[t])
       ELSE /\ InitFails("publish")
            /\ UNCHANGED hist
    /\ UNCHANGED <<chans, work>>
    /\ UNCHANGED sysvars

\* After the loop subscribeToBindingsChannel returns: Init starts
\* processMessages, registers onSessionBind, starts processPushes,
\* processSessionBindings and processKick, and returns nil.
InitBindings(ok) ==
    /\ ns.status = "initializing" /\ ns.pc = "publish"
    /\ \A t \in ns.todo : ns.publishSubs[t] # NoGroup
    /\ IF ok
       THEN ns' = [ns EXCEPT !.status = "running", !.workers = StartedWorkers, !.pc = ""]
       ELSE InitFails("bindings")
    /\ UNCHANGED <<chans, work, hist>>
    /\ UNCHANGED sysvars

\* An engine from its construction on: publish topics are registered
\* before and after Init.
InitEngine ==
    /\ sess = [h \in Handles |-> NewSession]
    /\ pool = [sv \in Servers |-> [u \in Uids |-> NoSession]]
    /\ cache = [u \in Uids |-> NoRecord]
    /\ net = {} /\ sent = {} /\ heard = {} /\ replies = {}
    /\ calls = [h \in Handles |-> Idle]
    /\ ns = NoEngine /\ chans = NoChans /\ work = NoWork /\ hist = NewHist

NextSubscribe ==
    \/ \E cfg \in Configs : NewNatsRPCServer(cfg)
    \/ \E t \in Topics, groups \in GroupArgs : Subscribe(t, groups)
    \/ SubscribeReturn
    \/ NatsInit
    \/ \E ok \in BOOLEAN : InitConnect(ok)
    \/ \E ok \in BOOLEAN : InitSubscribe(ok)
    \/ \E ok \in BOOLEAN : InitFork(ok)
    \/ \E t \in PublishTopics, ok \in BOOLEAN : InitPublish(t, ok)
    \/ \E ok \in BOOLEAN : InitBindings(ok)

SpecSubscribe == InitEngine /\ [][NextSubscribe]_vars

(***************************************************************************)
(* The engine's workers: handleMessages (the demultiplex task),            *)
(* processMessages (the dispatch worker), the per-user tasks it spawns and *)
(* processSessionBindings.                                                 *)
(***************************************************************************)
\* Broker messages received by one engine.
MaxMsgs == 3

\* A broker message: whether its payload unmarshals, and for a request its
\* type and whether util.GetContextFromRequest accepts it.
Envelope(id, ok, type, ctx) == [id |-> id, ok |-> ok, type |-> type, ctx |-> ctx]
NoEnvelope == Envelope(0, FALSE, "", FALSE)
Requests(id) == {Envelope(id, TRUE, type, ctx) : type \in {"notify", "call"}, ctx \in BOOLEAN}
Undecodable(id) == Envelope(id, FALSE, "", FALSE)

DefaultConfig == [services |-> 1, connect |-> "nats://broker",
                  messages |-> MaxBuffer, push |-> MaxBuffer]

\* What the subscriptions report as their dropped count when handleMessages
\* asks: Dropped returns -1 together with an error.
MaxDropped == 2
DropCounts == -1..MaxDropped
DropReports == [own : DropCounts, fork : DropCounts, publish : [PublishTopics -> DropCounts]]
NoDrops == [own |-> 0, fork |-> 0, publish |-> [t \in PublishTopics |-> 0]]

RECURSIVE SumPublish(_, _)
SumPublish(d, T) == IF T = {} THEN 0
                    ELSE LET t == CHOOSE x \in T : TRUE
                         IN d.publish[t] + SumPublish(d, T \ {t})

\* The sum handleMessages makes of the dropped counts of ns.sub, of every
\* subscription in broadcastSubs and of every subscription in publishSubs;
\* the errors are logged and the counts returned with them are added.
SumDropped(d) ==
    (IF ns.sub THEN d.own ELSE -1)
    + (IF ns.broadcastSubs > 0 THEN d.fork ELSE 0)
    + SumPublish(d, {t \in PublishTopics : ns.publishSubs[t] # NoGroup})

\* The workers after Init: the demultiplex task holds no request, no
\* per-user task is pending.
NewWork == [hand |-> NoEnvelope, tasks |-> {}]

\* What went through the workers: the envelopes taken from subChan and
\* from bindingsChan, the requests the dispatch worker took and those it
\* handed to a per-user task, the bind notifications passed on, the
\* responses published and the pushes and kicks PushToUser and KickUser
\* were called with.
RunHist == [n |-> 0, taken |-> <<>>, dispatched |-> <<>>, spawned |-> <<>>,
            bindtaken |-> <<>>, bound |-> <<>>, responses |-> <<>>,
            pushed |-> <<>>, kicked |-> <<>>, sums |-> <<>>]

\* The broker delivers a message on a subscription of subChan; the client
\* drops it when the channel is full.
BrokerDeliver(e) ==
    /\ ns.status \in {"initializing", "running", "initfailed"} /\ ns.sub /\ ~ns.closed
    /\ hist.n < MaxMsgs /\ e.id = hist.n + 1
    /\ hist' = [hist EXCEPT !.n = @ + 1]
    /\ chans' = IF Len(chans.subChan) < ns.cfg.messages
                THEN [chans EXCEPT !.subChan = Append(@, e)]
                ELSE chans
    /\ UNCHANGED <<ns, work>>
    /\ UNCHANGED sysvars

\* The broker delivers a bind notification on the bindings subject.
BrokerBind(e) ==
    /\ ns.status = "running" /\ ~ns.closed
    /\ hist.n < MaxMsgs /\ e.id = hist.n + 1
    /\ hist' = [hist EXCEPT !.n = @ + 1]
    /\ chans' = IF Len(chans.bindingsChan) < ns.cfg.messages
                THEN [chans EXCEPT !.bindingsChan = Append(@, e)]
                ELSE chans
    /\ UNCHANGED <<ns, work>>
    /\ UNCHANGED sysvars

\* Mutant: a message that does not unmarshal is forwarded too.
HandleMessage_KeepsAll(d) ==
    /\ ns.status \in {"initializing", "running", "initfailed"} /\ ns.demux = "running"
    /\ work.hand = NoEnvelope /\ chans.subChan # <<>>
    /\ chans' = [chans EXCEPT !.subChan = Tail(@)]
    /\ hist' = [hist EXCEPT !.taken = Append(@, Head(chans.subChan)),
                            !.sums = Append(@, SumDropped(d))]
    /\ work' = [work EXCEPT !.hand = Head(chans.subChan)]
    /\ ns' = [ns EXCEPT !.dropped = IF SumDropped(d) > @ THEN SumDropped(d) ELSE @]
    /\ UNCHANGED sysvars

\* Mutant: ns.dropped follows the last sum.
HandleMessage_LastSum(d) ==
    LET msg == Head(chans.subChan) IN
    /\ ns.status \in {"initializing", "running", "initfailed"} /\ ns.demux = "running"
    /\ work.hand = NoEnvelope /\ chans.subChan # <<>>
    /\ chans' = [chans EXCEPT !.subChan = Tail(@)]
    /\ hist' = [hist EXCEPT !.taken = Append(@, msg),
                            !.sums = Append(@, SumDropped(d))]
    /\ work' = IF msg.ok THEN [work EXCEPT !.hand = msg] ELSE work
    /\ ns' = [ns EXCEPT !.dropped = SumDropped(d)]
    /\ UNCHANGED sysvars

\* handleMessages, one iteration up to the send on unhandledReqCh: the
\* dropped counts are summed and ns.dropped is raised to a greater sum,
\* then a message that does not unmarshal is logged and skipped.
HandleMessage(d) ==
    LET msg == Head(chans.subChan)
        dropped == SumDropped(d) IN
    /\ ns.status \in {"initializing", "running", "initfailed"} /\ ns.demux = "running"
    /\ work.hand = NoEnvelope /\ chans.subChan # <<>>
    /\ chans' = [chans EXCEPT !.subChan = Tail(@)]
    /\ hist' = [hist EXCEPT !.taken = Append(@, msg), !.sums = Append(@, dropped)]
    /\ work' = IF msg.ok THEN [work EXCEPT !.hand = msg] ELSE work
    /\ ns' = [ns EXCEPT !.dropped = IF dropped > @ THEN dropped ELSE @]
    /\ UNCHANGED sysvars

\* processMessages, one iteration: the worker receives the request
\* handleMessages sends; when no context can be built it answers a request
\* that is not a notify with the error and goes on, else it hands the
\* request to a per-user task.
ProcessMessage ==
    LET req == work.hand IN
    /\ ns.status = "running"
    /\ req # NoEnvelope
    /\ ns.workers.dispatch = "running"
    /\ ns.cfg.services > 0
    /\ IF ~req.ctx
       THEN /\ work' = [work EXCEPT !.hand = NoEnvelope]
            /\ hist' = [hist EXCEPT
                          !.dispatched = Append(@, req),
                          !.responses = IF req.type # "notify"
                                        THEN Append(@, [id |-> req.id, status |-> "ctx"])
                                        ELSE @]
       ELSE /\ work' = [work EXCEPT !.hand = NoEnvelope, !.tasks = @ \cup {req}]
            /\ hist' = [hist EXCEPT !.dispatched = Append(@, req),
                                    !.spawned = Append(@, req)]
    /\ UNCHANGED <<ns, chans>>
    /\ UNCHANGED sysvars

\* Mutant: the task answers a notify too.
RunTask_AnswersAll(req, status) ==
    /\ req \in work.tasks
    /\ work' = [work EXCEPT !.tasks = @ \ {req}]
    /\ hist' = [hist EXCEPT !.responses = Append(@, [id |-> req.id, status |-> status])]
    /\ UNCHANGED <<ns, chans>>
    /\ UNCHANGED sysvars

\* The per-user task: pitayaServer.Call, then the response of a request
\* that is not a notify is marshalled and published on its reply subject.
RunTask(req, status) ==
    /\ req \in work.tasks
    /\ work' = [work EXCEPT !.tasks = @ \ {req}]
    /\ hist' = [hist EXCEPT !.responses =
                   IF req.type # "notify"
                   THEN Append(@, [id |-> req.id, status |-> status])
                   ELSE @]
    /\ UNCHANGED <<ns, chans>>
    /\ UNCHANGED sysvars

\* Mutant: a notification that does not unmarshal is passed on too.
ProcessSessionBinding_PassesAll ==
    /\ ns.status = "running"
    /\ chans.bindingsChan # <<>>
    /\ chans' = [chans EXCEPT !.bindingsChan = Tail(@)]
    /\ hist' = [hist EXCEPT !.bindtaken = Append(@, Head(chans.bindingsChan)),
                            !.bound = Append(@, Head(chans.bindingsChan))]
    /\ UNCHANGED <<ns, work>>
    /\ UNCHANGED sysvars

\* processSessionBindings, one iteration: a notification that does not
\* unmarshal is logged and skipped, the others go to SessionBindRemote.
ProcessSessionBinding ==
    LET bind == Head(chans.bindingsChan) IN
    /\ ns.status = "running" /\ ns.workers.bindings = "running"
    /\ chans.bindingsChan # <<>>
    /\ chans' = [chans EXCEPT !.bindingsChan = Tail(@)]
    /\ hist' = [hist EXCEPT !.bindtaken = Append(@, bind),
                            !.bound = IF bind.ok THEN Append(@, bind) ELSE @]
    /\ UNCHANGED <<ns, work>>
    /\ UNCHANGED sysvars

\* The callback of subscribeToUserMessages: an unmarshal error is logged and
\* the push is sent on userPushCh; the callback waits while it is full.
UserPushMessage(e) ==
    /\ ns.status = "running"
    /\ hist.n < MaxMsgs /\ e.id = hist.n + 1
    /\ Len(chans.userPushCh) < ns.cfg.push
    /\ hist' = [hist EXCEPT !.n = @ + 1]
    /\ chans' = [chans EXCEPT !.userPushCh = Append(@, e)]
    /\ UNCHANGED <<ns, work>>
    /\ UNCHANGED sysvars

\* The callback of subscribeToUserKickChannel: an unmarshal error is logged
\* and the kick is sent on userKickCh.
UserKickMessage(e) ==
    /\ ns.status = "running"
    /\ hist.n < MaxMsgs /\ e.id = hist.n + 1
    /\ Len(chans.userKickCh) < ns.cfg.messages
    /\ hist' = [hist EXCEPT !.n = @ + 1]
    /\ chans' = [chans EXCEPT !.userKickCh = Append(@, e)]
    /\ UNCHANGED <<ns, work>>
    /\ UNCHANGED sysvars

\* processPushes, one iteration: PushToUser.
ProcessPush ==
    /\ ns.status = "running"
    /\ chans.userPushCh # <<>>
    /\ chans' = [chans EXCEPT !.userPushCh = Tail(@)]
    /\ hist' = [hist EXCEPT !.pushed = Append(@, Head(chans.userPushCh))]
    /\ UNCHANGED <<ns, work>>
    /\ UNCHANGED sysvars

\* processKick, one iteration: KickUser.
ProcessKick ==
    /\ ns.status = "running"
    /\ chans.userKickCh # <<>>
    /\ chans' = [chans EXCEPT !.userKickCh = Tail(@)]
    /\ hist' = [hist EXCEPT !.kicked = Append(@, Head(chans.userKickCh))]
    /\ UNCHANGED <<ns, work>>
    /\ UNCHANGED sysvars

\* A running engine.
InitDispatch ==
    /\ sess = [h \in Handles |-> NewSession]
    /\ pool = [sv \in Servers |-> [u \in Uids |-> NoSession]]
    /\ cache = [u \in Uids |-> NoRecord]
    /\ net = {} /\ sent = {} /\ heard = {} /\ replies = {}
    /\ calls = [h \in Handles |-> Idle]
    /\ ns = RunningEngine(DefaultConfig)
    /\ chans = EmptyChans /\ work = NewWork /\ hist = RunHist

NextDispatch ==
    \/ \E e \in Requests(hist.n + 1) \cup {Undecodable(hist.n + 1)} : BrokerDeliver(e)
    \/ \E ok \in BOOLEAN : BrokerBind(Envelope(hist.n + 1, ok, "", FALSE))
    \/ HandleMessage(NoDrops)
    \/ ProcessMessage
    \/ \E req \in work.tasks, status \in {"ok", "error"} : RunTask(req, status)
    \/ ProcessSessionBinding

SpecDispatch == InitDispatch /\ [][NextDispatch]_vars

\* A running engine with one publish topic subscribed: the subscriptions
\* report any dropped counts.
OneTopic == GetPublishTopic("t1")
InitDrops ==
    /\ sess = [h \in Handles |-> NewSession]
    /\ pool = [sv \in Servers |-> [u \in Uids |-> NoSession]]
    /\ cache = [u \in Uids |-> NoRecord]
    /\ net = {} /\ sent = {} /\ heard = {} /\ replies = {}
    /\ calls = [h \in Handles |-> Idle]
    /\ ns = [RunningEngine(DefaultConfig) EXCEPT !.publishSubs[OneTopic] = ""]
    /\ chans = EmptyChans /\ work = NewWork /\ hist = RunHist

NextDrops ==
    \/ \E ok \in BOOLEAN : BrokerDeliver(Envelope(hist.n + 1, ok, "notify", TRUE))
    \/ \E d \in DropReports :
          /\ \A t \in PublishTopics \ {OneTopic} : d.publish[t] = 0
          /\ HandleMessage(d)
    \/ ProcessMessage
    \/ \E req \in work.tasks : RunTask(req, "ok")

SpecDrops == InitDrops /\ [][NextDrops]_vars

\* The user-scoped subscriptions of a bound user on a running engine.
NextPush ==
    \/ \E ok \in BOOLEAN : UserPushMessage(Envelope(hist.n + 1, ok, "push", FALSE))
    \/ \E ok \in BOOLEAN : UserKickMessage(Envelope(hist.n + 1, ok, "kick", FALSE))
    \/ ProcessPush
    \/ ProcessKick

SpecPush == InitDispatch /\ [][NextPush]_vars

(***************************************************************************)
(* Init, Shutdown and the end of the tasks.                                *)
(***************************************************************************)
\* NatsRPCServer.Shutdown: stopChan is closed.
Shutdown ==
    /\ ns.status \in {"initializing", "running", "initfailed"}
    /\ ~ns.stop
    /\ ns' = [ns EXCEPT !.stop = TRUE]
    /\ UNCHANGED <<chans, work, hist>>
    /\ UNCHANGED sysvars

\* handleMessages takes the stopChan branch of its select and returns: the
\* deferred function drains the connection, then closes unhandledReqCh,
\* subChan and bindingsChan.  Without a connection ns.conn is nil and the
\* Drain call faults before any channel is closed.
HandleMessagesReturn ==
    /\ ns.status \in {"initializing", "running", "initfailed"} /\ ns.demux = "running"
    /\ ns.stop
    /\ work.hand = NoEnvelope
    /\ ns' = IF ns.conn
             THEN [ns EXCEPT !.demux = "returned", !.closed = TRUE]
             ELSE [ns EXCEPT !.demux = "fault"]
    /\ UNCHANGED <<chans, work, hist>>
    /\ UNCHANGED sysvars

\* processMessages ends when unhandledReqCh is closed.
ProcessMessagesEnd ==
    /\ ns.status = "running" /\ ns.workers.dispatch = "running"
    /\ ns.closed /\ work.hand = NoEnvelope
    /\ ns' = [ns EXCEPT !.workers.dispatch = "done"]
    /\ UNCHANGED <<chans, work, hist>>
    /\ UNCHANGED sysvars

\* processSessionBindings ends when bindingsChan is closed and empty.
ProcessSessionBindingsEnd ==
    /\ ns.status = "running" /\ ns.workers.bindings = "running"
    /\ ns.closed /\ chans.bindingsChan = <<>>
    /\ ns' = [ns EXCEPT !.workers.bindings = "done"]
    /\ UNCHANGED <<chans, work, hist>>
    /\ UNCHANGED sysvars

\* An engine before Init, one publish topic registered.  processPushes and
\* processKick range over userPushCh and userKickCh, which nothing closes:
\* they have no step that ends them.
LifeHist == [n |-> 0, taken |-> <<>>, dispatched |-> <<>>, spawned |-> <<>>,
             bindtaken |-> <<>>, bound |-> <<>>, responses |-> <<>>,
             pushed |-> <<>>, kicked |-> <<>>, sums |-> <<>>,
             broker |-> NoBroker, first |-> [NoSubs EXCEPT ![OneTopic] = ""],
             overlap |-> FALSE]

InitShutdown ==
    /\ sess = [h \in Handles |-> NewSession]
    /\ pool = [sv \in Servers |-> [u \in Uids |-> NoSession]]
    /\ cache = [u \in Uids |-> NoRecord]
    /\ net = {} /\ sent = {} /\ heard = {} /\ replies = {}
    /\ calls = [h \in Handles |-> Idle]
    /\ ns = [NewEngine(DefaultConfig) EXCEPT !.preparePubSubTopics[OneTopic] = ""]
    /\ chans = EmptyChans /\ work = NewWork /\ hist = LifeHist

NextShutdown ==
    \/ NatsInit
    \/ \E ok \in BOOLEAN : InitConnect(ok)
    \/ \E ok \in BOOLEAN : InitSubscribe(ok)
    \/ \E ok \in BOOLEAN : InitFork(ok)
    \/ \E t \in PublishTopics, ok \in BOOLEAN : InitPublish(t, ok)
    \/ \E ok \in BOOLEAN : InitBindings(ok)
    \/ Shutdown
    \/ \E ok \in BOOLEAN : BrokerDeliver(Envelope(hist.n + 1, ok, "call", TRUE))
    \/ \E ok \in BOOLEAN : BrokerBind(Envelope(hist.n + 1, ok, "", FALSE))
    \/ \E ok \in BOOLEAN : UserPushMessage(Envelope(hist.n + 1, ok, "push", FALSE))
    \/ \E ok \in BOOLEAN : UserKickMessage(Envelope(hist.n + 1, ok, "kick", FALSE))
    \/ HandleMessage(NoDrops)
    \/ HandleMessagesReturn
    \/ ProcessMessage
    \/ ProcessMessagesEnd
    \/ \E req \in work.tasks : RunTask(req, "ok")
    \/ ProcessSessionBinding
    \/ ProcessSessionBindingsEnd
    \/ ProcessPush
    \/ ProcessKick

SpecShutdown == InitShutdown /\ [][NextShutdown]_vars

\* Every task that can take a step takes it.
FairShutdown ==
    /\ SpecShutdown
    /\ WF_vars(HandleMessage(NoDrops))
    /\ WF_vars(HandleMessagesReturn)
    /\ WF_vars(ProcessMessage)
    /\ WF_vars(ProcessMessagesEnd)
    /\ WF_vars(\E req \in work.tasks : RunTask(req, "ok"))
    /\ WF_vars(ProcessSessionBinding)
    /\ WF_vars(ProcessSessionBindingsEnd)
    /\ WF_vars(ProcessPush)
    /\ WF_vars(ProcessKick)

(***************************************************************************)
(* The engine's onSessionBind callback: the user-scoped subscriptions.     *)
(***************************************************************************)
\* Sessions bound on one engine, and their users.
MaxBinds == 3
BindUids == {"u1", "u2"}
EngineServers == {"F1", "B1"}

GetUserMessagesTopic(uid, svType) == "pitaya/" \o svType \o "/user/" \o uid \o "/push"
GetUserKickTopic(uid, svType) == "pitaya/" \o svType \o "/user/" \o uid \o "/kick"

\* A broker subscription made for the session sid.
UserSub(sid, topic) == [sid |-> sid, topic |-> topic]

\* The engine of the server sv: the subscriptions recorded on each session;
\* the calls made and the user-scoped subscriptions active in the broker.
BindWork(sv) == [server |-> sv, subs |-> [sid \in 1..MaxBinds |-> {}]]
BindHist == [calls |-> <<>>, broker |-> {}]

\* NatsRPCServer.onSessionBind is called for a new session of uid: on a
\* server that is not a frontend it returns nil at once; on a frontend it
\* asks the broker for the user-push subscription.
onSessionBind(uid) ==
    LET sid == Len(hist.calls) + 1
        call(pc) == Append(hist.calls, [sid |-> sid, uid |-> uid, err |-> "OK", pc |-> pc]) IN
    /\ ns.status = "running"
    /\ sid <= MaxBinds
    /\ hist' = [hist EXCEPT !.calls = call(IF IsFrontend(work.server) THEN "push" ELSE "done")]
    /\ UNCHANGED <<ns, chans, work>>
    /\ UNCHANGED sysvars

\* subscribeToUserMessages returns: with an error the callback returns it;
\* else the subscription is active and the callback asks for the user-kick
\* subscription.
subscribeToUserMessages(sid, ok) ==
    LET c == hist.calls[sid]
        subu == UserSub(sid, GetUserMessagesTopic(c.uid, ServerType(work.server))) IN
    /\ sid \in 1..Len(hist.calls)
    /\ c.pc = "push"
    /\ hist' = IF ok
               THEN [hist EXCEPT !.calls[sid].pc = "kick", !.broker = @ \cup {subu}]
               ELSE [hist EXCEPT !.calls[sid].pc = "done", !.calls[sid].err = "ErrSubscribe"]
    /\ UNCHANGED <<ns, chans, work>>
    /\ UNCHANGED sysvars

\* subscribeToUserKickChannel returns: with an error the callback returns
\* it; else both subscriptions are set on the session and the callback
\* returns nil.
subscribeToUserKickChannel(sid, ok) ==
    LET c == hist.calls[sid]
        svType == ServerType(work.server)
        subu == UserSub(sid, GetUserMessagesTopic(c.uid, svType))
        subk == UserSub(sid, GetUserKickTopic(c.uid, svType)) IN
    /\ sid \in 1..Len(hist.calls)
    /\ c.pc = "kick"
    /\ IF ok
       THEN /\ hist' = [hist EXCEPT !.calls[sid].pc = "done", !.broker = @ \cup {subk}]
            /\ work' = [work EXCEPT !.subs[sid] = {subu, subk}]
       ELSE /\ hist' = [hist EXCEPT !.calls[sid].pc = "done",
                                    !.calls[sid].err = "ErrSubscribe"]
            /\ UNCHANGED work
    /\ UNCHANGED <<ns, chans>>
    /\ UNCHANGED sysvars

InitUserSubs ==
    /\ sess = [h \in Handles |-> NewSession]
    /\ pool = [sv \in Servers |-> [u \in Uids |-> NoSession]]
    /\ cache = [u \in Uids |-> NoRecord]
    /\ net = {} /\ sent = {} /\ heard = {} /\ replies = {}
    /\ calls = [h \in Handles |-> Idle]
    /\ ns = RunningEngine(DefaultConfig)
    /\ chans = EmptyChans
    /\ \E sv \in EngineServers : work = BindWork(sv)
    /\ hist = BindHist

NextUserSubs ==
    \/ \E uid \in BindUids : onSessionBind(uid)
    \/ \E sid \in 1..MaxBinds, ok \in BOOLEAN : subscribeToUserMessages(sid, ok)
    \/ \E sid \in 1..MaxBinds, ok \in BOOLEAN : subscribeToUserKickChannel(sid, ok)

SpecUserSubs == InitUserSubs /\ [][NextUserSubs]_vars

(***************************************************************************)
(* The listener tasks of the notification handlers (sys.go 381-424) on a   *)
(* server that receives notifications of one user.                         *)
(***************************************************************************)
NotifyRoutes == {"session.bound", "session.closed", "session.bound.backend",
                 "session.kicked.backend"}

\* The server receiving the notifications, and its session of the user
\* when it holds one.
Receiver == "B1"
ReceiverSession == <<"B1", -1>>

ListenerHist == [n |-> 0]

\* A notification of the user arrives: the dispatch worker hands the
\* requests of one user to the user's task in arrival order.
NotificationArrives(route, uid) ==
    LET m == Msg(route, Receiver, uid, "F1", 1, "game", "B2", NoMeta, uid,
                 "notify", NoSession, hist.n + 1) IN
    /\ hist.n < MaxMsgs
    /\ hist' = [hist EXCEPT !.n = @ + 1]
    /\ work' = [work EXCEPT !.handlers = Append(@, m)]
    /\ Publish({m})
    /\ UNCHANGED <<sess, pool, cache, calls, heard, replies>>
    /\ UNCHANGED <<ns, chans>>

\* The notification whose handler runs next.
Arrived == IF work.handlers = <<>> THEN {} ELSE {Head(work.handlers)}

\* The receiver holds a session of the user, or none.
InitListeners ==
    /\ \E held \in BOOLEAN :
          /\ sess = [h \in Handles |->
                       IF held /\ h = ReceiverSession
                       THEN [BoundF1 EXCEPT !.st = "Ctx"] ELSE NewSession]
          /\ pool = [sv \in Servers |-> [u \in Uids |->
                       IF held /\ sv = Receiver THEN ReceiverSession ELSE NoSession]]
    /\ cache = [u \in Uids |-> NoRecord]
    /\ net = {} /\ sent = {} /\ heard = {} /\ replies = {}
    /\ calls = [h \in Handles |-> Idle]
    /\ ns = RunningEngine(DefaultConfig)
    /\ chans = EmptyChans /\ work = ListenerWork /\ hist = ListenerHist

NextListeners ==
    \/ \E route \in NotifyRoutes, uid \in Uids : NotificationArrives(route, uid)
    \/ \E m \in Arrived : SessionBound(m)
    \/ \E m \in Arrived : SessionClosed(m)
    \/ \E m \in Arrived : SessionBoundBackend(m)
    \/ \E m \in Arrived : SessionKickedBackend(m)
    \/ \E i \in 1..MaxMsgs : RunListener(i)

SpecListeners == InitListeners /\ [][NextListeners]_vars

(***************************************************************************)
(* Properties of OnSessionBind.                                            *)
(***************************************************************************)
\* The callback of session h returns in this step.
BindReturns(h) ==
    /\ calls[h].kind = "bind" /\ calls[h].pc \notin {"idle", "done"}
    /\ calls'[h].pc = "done"

BindSucceeded(h) ==
    calls[h].kind = "bind" /\ calls[h].pc = "done" /\ calls[h].err = "OK"

StepError(op) ==
    CASE op = "obtain" -> "ErrObtain"
      [] op = "flush" -> "ErrFlush"
      [] op = "broadcast" -> "ErrBroadcast"
      [] op = "fork" -> "ErrFork"
      [] op = "notifyall" -> "ErrNotifyAll"

\* C1: whenever OnSessionBind returns success on frontend F for session s,
\* the cache record of s.uid has frontendId = F.id and frontendSessionId =
\* s.id, and so has the session's local frontend data (never empty).
C1_BindSuccessOwnsRecord ==
    [][\A h \in FrontSessions :
         (BindReturns(h) /\ calls'[h].err = "OK") =>
            /\ cache'[calls'[h].uid].present
            /\ cache'[calls'[h].uid].fid = Owner(h)
            /\ cache'[calls'[h].uid].fsid = SessionID(h)
            /\ sess'[h].fid = Owner(h) /\ sess'[h].fid # NoServer
            /\ sess'[h].fsid = SessionID(h)]_vars

\* C2: if one of ObtainFromCluster, Flush2Cluster, the bindings broadcast,
\* the Fork or the NotifyAll fails, the callback returns that step's error
\* and the session's encoded data equals the snapshot taken at entry.
C2_BindFailureRollsBack ==
    [][\A h \in FrontSessions :
         (BindReturns(h) /\ calls'[h].failed # {}) =>
            /\ \E op \in calls'[h].failed : calls'[h].err = StepError(op)
            /\ sess'[h].data = calls'[h].olddata]_vars

\* The messages invocation n of session h published on a route.
SentBy(h, n, route) == {m \in sent : m.by = h /\ m.n = n /\ m.route = route}

\* C3: a successful OnSessionBind issued exactly one bindings broadcast, one
\* Fork of the BindMsg to the own type and one NotifyAll on session.bound:
\* every instance of the own type is sent exactly one fork message and every
\* server type NotifyAll addresses exactly one bound notification.
C3_BindSuccessFanout ==
    \A h \in FrontSessions :
       BindSucceeded(h) =>
          LET c == calls[h]
              own == ServerType(c.sv)
              forks == SentBy(h, c.n, "session.bound.fork")
              bounds == SentBy(h, c.n, "session.bound") IN
          /\ Did(c, "broadcast") = 1 /\ Did(c, "fork") = 1 /\ Did(c, "notifyall") = 1
          /\ \A sv \in ServersOfType(own) : Cardinality({m \in forks : m.to = sv}) = 1
          /\ \A m \in forks : /\ ServerType(m.to) = own
                                /\ m.uid = c.uid /\ m.fid = c.sv /\ m.sid = SessionID(h)
          /\ \A t \in NotifyAllTypes(c.sv) :
                Cardinality({m \in bounds : ServerType(m.to) = t}) = 1
          /\ \A m \in bounds : /\ ServerType(m.to) \in NotifyAllTypes(c.sv)
                                 /\ m.uid = c.uid /\ m.fid = c.sv /\ m.sid = SessionID(h)

C3_Witness ==
    \E h \in FrontSessions :
       /\ BindSucceeded(h)
       /\ SentBy(h, calls[h].n, "session.bound.fork") # {}
       /\ SentBy(h, calls[h].n, "session.bound") # {}

\* C5: in every reachable state, concurrent binds of one uid on two
\* frontends included, at most one frontend holds a Bound session of a uid
\* and the frontendId of the uid's cache record is that frontend's id.
C5_OneFrontendPerUid ==
    \A h \in FrontSessions :
       (sess[h].st = "Bound" /\ sess[h].uid # NoUid) =>
          /\ \A g \in FrontSessions :
                (sess[g].st = "Bound" /\ sess[g].uid = sess[h].uid) => g = h
          /\ cache[sess[h].uid].fid = Owner(h)

(***************************************************************************)
(* Properties of OnSessionClose.                                           *)
(***************************************************************************)
\* Session h is closed in this step.
Closes(h) == sess[h].st # "Closed" /\ sess'[h].st = "Closed"

\* C4: OnSessionClose sends nothing on a non-frontend server and nothing
\* when the reason is Rebind; otherwise it issues one NotifyAll of
\* KickMsg{userId = s.uid, metadata} on session.closed, which sends one
\* KickMsg to each peer server type.
C4_CloseFanout ==
    [][\A h \in Handles :
         Closes(h) =>
            LET c == calls'[h]
                new == sent' \ sent
                peers == NotifyAllTypes(Owner(h)) IN
            /\ c.kind = "close"
            /\ net' \ net = new
            /\ IF ~IsFrontend(Owner(h)) \/ c.reason = "Rebind"
               THEN new = {} /\ c.ops = <<>>
               ELSE /\ c.ops = <<"notifyall">>
                    /\ \A m \in new : /\ m.route = "session.closed"
                                      /\ m.uid = sess[h].uid /\ m.md = c.md
                                      /\ ServerType(m.to) \in peers
                    /\ \A t \in peers :
                          LET k == Cardinality({m \in new : ServerType(m.to) = t}) IN
                          k <= 1 /\ (c.err = "OK" => k = 1)]_vars

ClosedWith(h, reason) ==
    calls[h].kind = "close" /\ calls[h].reason = reason /\ calls[h].err = "OK"

C4_Witness ==
    /\ \E h \in FrontSessions :
          /\ ClosedWith(h, "Normal") /\ calls[h].uid # NoUid
          /\ \E m \in sent : m.route = "session.closed" /\ m.by = h
    /\ \E h \in FrontSessions :
          /\ ClosedWith(h, "Rebind") /\ calls[h].uid # NoUid
          /\ ~ \E m \in sent : m.route = "session.closed" /\ m.by = h
    /\ \E h \in BackSessions : ClosedWith(h, "Normal")

\* The user bound on h1 was closed there with reason Rebind and then bound
\* on h2, a session of another frontend.
Rebound(h1, h2) ==
    /\ Owner(h1) # Owner(h2)
    /\ ClosedWith(h1, "Rebind") /\ calls[h1].uid # NoUid
    /\ BindSucceeded(h2) /\ calls[h2].uid = calls[h1].uid
    /\ h1 \in calls[h2].after

\* C6: rebind scenario: the user bound on F1 is closed there with reason
\* Rebind and then bound on F2; no session.closed message is sent and the
\* cache record of the uid has frontendId = F2.
C6_RebindScenario ==
    \A h1, h2 \in FrontSessions :
       Rebound(h1, h2) =>
          /\ ~ \E m \in sent : m.route = "session.closed"
          /\ cache[calls[h2].uid].present
          /\ cache[calls[h2].uid].fid = Owner(h2)

C6_Witness ==
    \E h1, h2 \in FrontSessions :
       /\ Rebound(h1, h2)
       /\ sess[h2].st = "Bound" /\ sess[h1].st = "Closed"

(***************************************************************************)
(* Properties of OnBindBackend and Sys.BindBackendSession.                 *)
(***************************************************************************)
\* The callback run for session h with target == self looks its uid up in
\* the local pool in this step.
ChecksPool(h) == SelfStep(h, "check") /\ calls'[h].pc # "check"

SelfBound(h) ==
    /\ calls[h].kind = "bindbackend" /\ calls[h].target = calls[h].sv
    /\ calls[h].pc = "done" /\ calls[h].err = "OK"

\* C7: OnBindBackend with target == self returns ErrSessionAlreadyBound
\* whenever the local pool already holds a session of the uid, having done
\* no store, no Flush2Cluster, no Fork and no Notify; so it does on a call
\* made after a successful OnBindBackend(self) of the same uid.
C7_AlreadyBound ==
    [][\A h \in Handles :
         ChecksPool(h) =>
            /\ (\E g \in Handles : /\ SelfBound(g) /\ calls[g].sv = calls[h].sv
                                    /\ calls[g].uid = calls[h].uid)
                  => pool[calls[h].sv][calls[h].uid] # NoSession
            /\ pool[calls[h].sv][calls[h].uid] # NoSession =>
                  /\ calls'[h].pc = "done"
                  /\ calls'[h].err = "ErrSessionAlreadyBound"
                  /\ calls'[h].ops = <<"check">>
                  /\ UNCHANGED <<pool, cache, net, sent>>
                  /\ sess'[h].backends[calls[h].btype] = calls[h].oldb]_vars

C7_Witness ==
    \E g, h \in BackSessions :
       /\ g # h /\ SelfBound(g)
       /\ calls[h].kind = "bindbackend" /\ calls[h].target = calls[h].sv
       /\ calls[h].sv = calls[g].sv /\ calls[h].uid = calls[g].uid
       /\ calls[h].pc = "done" /\ calls[h].err = "ErrSessionAlreadyBound"
       /\ pool[calls[g].sv][calls[g].uid] = g

\* OnBindBackend is run for session h with another server as target in
\* this step.
Forwards(h) ==
    /\ calls'[h] # calls[h]
    /\ calls'[h].kind = "bindbackend" /\ calls'[h].target # calls'[h].sv

\* C8: OnBindBackend with a target other than the local server issues one
\* Notify on session.bind.backend addressed to the target and returns its
\* result; the local pool and the cache record are unchanged.
C8_ForwardOnly ==
    [][\A h \in Handles :
         Forwards(h) =>
            LET c == calls'[h]
                new == sent' \ sent IN
            /\ c.pc = "done" /\ c.ops = <<"notify">>
            /\ pool' = pool /\ cache' = cache
            /\ net' \ net = new
            /\ Cardinality(new) = (IF c.err = "OK" THEN 1 ELSE 0)
            /\ c.err \in {"OK", "ErrNotify"}
            /\ \A m \in new : /\ m.route = "session.bind.backend" /\ m.to = c.target
                              /\ m.uid = c.uid /\ m.btype = c.btype /\ m.md = c.md]_vars

C8_Witness ==
    \E h \in Handles :
       /\ calls[h].kind = "bindbackend" /\ calls[h].target # calls[h].sv
       /\ calls[h].err = "OK"
       /\ \E m \in sent : /\ m.by = h /\ m.n = calls[h].n /\ m.to = calls[h].target
                          /\ m.route = "session.bind.backend"

\* C9: the BindBackendMsg OnBindBackend forwards to server B, btype being
\* B's type, carries bid = B.id, and B's BindBackendSession does not answer
\* it with ErrIllegalBindBackendID.
C9_ForwardedBidIsTarget ==
    \A r \in replies :
       (/\ r.msg.kind = "bindbackend" /\ r.msg.route = "session.bind.backend"
        /\ r.msg.btype = ServerType(r.msg.to)) =>
          /\ r.msg.bid = r.msg.to
          /\ r.res # "ErrIllegalBindBackendID"

\* BindBackendSession answers message m with res in this step.
Answers(m, res) ==
    /\ m.route = "session.bind.backend"
    /\ [msg |-> m, res |-> res] \in replies' \ replies

\* C10: BindBackendSession answers ErrIllegalBindBackendID whenever
\* msg.btype or msg.bid is not the server's own, the session's BindBackend
\* not being called and the pool unchanged; when both are the server's own
\* it answers ack iff the session's BindBackend succeeded.
C10_IllegalBindBackendID ==
    [][\A m \in sent, res \in {"ack", "panic", "ErrIllegalBindBackendID",
                                "ErrSessionAlreadyBound", "ErrStore", "ErrFlush",
                                "ErrFork", "ErrNotify"} :
         Answers(m, res) =>
            LET illegal == m.btype # ServerType(m.to) \/ m.bid # m.to
                bound == \E h \in Handles :
                            /\ calls'[h].via = m /\ calls'[h].kind = "bindbackend"
                            /\ calls'[h].pc = "done" /\ calls'[h].err = "OK" IN
            /\ illegal => /\ res = "ErrIllegalBindBackendID"
                          /\ pool' = pool /\ calls' = calls
            /\ ~illegal => /\ res # "ErrIllegalBindBackendID"
                           /\ res = "ack" <=> bound]_vars

\* C13: when OnBindBackend with target == self fails at StoreSessionLocal
\* or at Flush2Cluster, the session is not left stored in the local pool.
C13_FailedBindLeavesPool ==
    [][\A h \in Handles :
         (/\ calls[h].kind = "bindbackend" /\ calls[h].pc \in {"store", "flush"}
          /\ calls'[h].pc = "done" /\ calls'[h].err # "OK") =>
            pool'[calls[h].sv][calls[h].uid] # h]_vars

(***************************************************************************)
(* Properties of OnKickBackend.                                            *)
(***************************************************************************)
\* The callback of a kick of session h returns in this step.
KickReturns(h) ==
    /\ calls'[h].kind = "kick" /\ calls'[h].pc = "done"
    /\ calls'[h] # calls[h]

\* C11: OnKickBackend with target == self and a reason other than Rebind,
\* returning success, has removed the session from the local pool, flushed
\* the record and sent a session.kicked.backend notification to one instance
\* of every server type known to discovery.
C11_KickNotifiesAllTypes ==
    [][\A h \in Handles :
         (/\ KickReturns(h) /\ calls'[h].target = calls'[h].sv
          /\ calls'[h].reason # "Rebind" /\ calls'[h].err = "OK") =>
            LET c == calls'[h]
                kicked == {m \in sent' : /\ m.by = h /\ m.n = c.n
                                         /\ m.route = "session.kicked.backend"} IN
            /\ pool'[c.sv][c.uid] # h
            /\ Did(c, "flush") = 1
            /\ \A t \in ServerTypes :
                  Cardinality({m \in kicked : ServerType(m.to) = t}) = 1]_vars

\* C12: OnKickBackend with target == self and reason Rebind removes the
\* session from the local pool and returns success without a Flush2Cluster
\* or a message; with another server as target it sends one Notify on
\* kick.backend to the target and leaves the local pool and the cache alone.
C12_KickRebindAndForward ==
    [][\A h \in Handles :
         KickReturns(h) =>
            LET c == calls'[h]
                new == sent' \ sent IN
            /\ (c.target = c.sv /\ c.reason = "Rebind") =>
                  /\ c.err = "OK" /\ c.ops = <<"remove">>
                  /\ pool'[c.sv][c.uid] # h
                  /\ \A sv \in Servers, u \in Uids :
                        pool'[sv][u] # pool[sv][u] => (sv = c.sv /\ pool[sv][u] = h)
                  /\ cache' = cache /\ sent' = sent /\ net' = net
            /\ c.target # c.sv =>
                  /\ c.ops = <<"notify">>
                  /\ pool' = pool /\ cache' = cache
                  /\ net' \ net = new
                  /\ Cardinality(new) = (IF c.err = "OK" THEN 1 ELSE 0)
                  /\ c.err \in {"OK", "ErrNotify"}
                  /\ \A m \in new : /\ m.route = "kick.backend" /\ m.to = c.target
                                    /\ m.uid = c.uid /\ m.btype = c.btype]_vars

C12_Witness ==
    /\ \E h \in Handles :
          /\ calls[h].kind = "kick" /\ calls[h].target = calls[h].sv
          /\ calls[h].reason = "Rebind" /\ calls[h].pc = "done"
          /\ pool[calls[h].sv][calls[h].uid] = NoSession
    /\ \E h \in Handles :
          /\ calls[h].kind = "kick" /\ calls[h].target # calls[h].sv
          /\ calls[h].err = "OK"
          /\ \E m \in sent : /\ m.by = h /\ m.n = calls[h].n
                             /\ m.route = "kick.backend" /\ m.to = calls[h].target

(***************************************************************************)
(* Properties of the RPC server engine.                                    *)
(***************************************************************************)
\* NewNatsRPCServer returns in this step.
Constructs == ns.status = "none" /\ ns'.status # "none"

\* C20: NewNatsRPCServer returns a server only when the connect string is
\* not empty and buffer.messages and buffer.push are greater than 0; an
\* empty connect string gives ErrNoNatsConnectionString, then
\* buffer.messages = 0 gives ErrNatsMessagesBufferSizeZero, then
\* buffer.push = 0 gives ErrNatsPushBufferSizeZero, and no failing call
\* returns a server.
C20_ConstructorValidates ==
    [][Constructs =>
         LET cfg == ns'.cfg IN
         /\ ns'.status = "new" =>
               cfg.connect # "" /\ cfg.messages > 0 /\ cfg.push > 0
         /\ cfg.connect = "" => ns'.err = "ErrNoNatsConnectionString"
         /\ (cfg.connect # "" /\ cfg.messages = 0) =>
               ns'.err = "ErrNatsMessagesBufferSizeZero"
         /\ (cfg.connect # "" /\ cfg.messages # 0 /\ cfg.push = 0) =>
               ns'.err = "ErrNatsPushBufferSizeZero"
         /\ ns'.err # "OK" => (ns'.status = "failed" /\ chans' = chans)
         /\ ns'.err = "OK" => ns'.status = "new"]_vars

C20_Witness ==
    /\ ns.status = "failed" /\ ns.err = "ErrNatsPushBufferSizeZero"
    /\ ns.cfg.connect # "" /\ ns.cfg.messages > 0 /\ ns.cfg.push = 0

\* A Subscribe call returns in this step.
Subscribes(topic) ==
    /\ ns.status # "none" /\ ns'.status # "none" /\ ns'.status # "failed"
    /\ ns.status # "failed"
    /\ ns.call # NoCall /\ ns'.call = NoCall /\ ns.call.topic = topic

Registered(topic) == hist.first[topic] # NoGroup

\* C19: Subscribe calls being made one after another before and after
\* Init, once Init has succeeded every registered topic has exactly one
\* broker subscription, made with the group of its first registration; a
\* topic registered after Init is subscribed at once; registering a
\* registered topic again makes no subscription and returns no error.
C19_OneSubscriptionPerTopic ==
    [][/\ (ns'.status = "running" /\ ~hist'.overlap) =>
            \A t \in PublishTopics :
               /\ hist'.first[t] # NoGroup => hist'.broker[t] = <<hist'.first[t]>>
               /\ hist'.first[t] = NoGroup => hist'.broker[t] = <<>>
       /\ \A t \in PublishTopics :
            (Subscribes(t) /\ Registered(t)) =>
               /\ hist'.broker = hist.broker /\ hist'.first = hist.first
               /\ ns'.ret.err = "OK"]_vars

C19_Witness ==
    /\ ns.status = "running" /\ ns.nsubs = 3 /\ ns.call = NoCall /\ ~hist.overlap
    /\ ns.preparePubSubTopics # NoSubs
    /\ \A t \in PublishTopics : Len(hist.broker[t]) = 1
    /\ \E t \in PublishTopics : hist.first[t] # ns.preparePubSubTopics[t]

Decodable(e) == e.ok
ContextBuilt(e) == e.ctx

\* The requests forwarded so far: those the dispatch worker took and the
\* one handleMessages is sending.
Forwarded ==
    IF work.hand = NoEnvelope THEN hist.dispatched
    ELSE Append(hist.dispatched, work.hand)

\* C15: the requests the dispatch worker takes from unhandledReqCh, and
\* hands to per-user tasks, are the envelopes taken from subChan without
\* the undecodable ones, in the same order: none is reordered, duplicated
\* or lost.
C15_DispatchKeepsOrder ==
    /\ Forwarded = SelectSeq(hist.taken, Decodable)
    /\ hist.spawned = SelectSeq(hist.dispatched, ContextBuilt)

C15_Witness ==
    /\ Len(hist.dispatched) = 2 /\ Len(hist.taken) = 3
    /\ ~hist.taken[2].ok
    /\ hist.dispatched = <<hist.taken[1], hist.taken[3]>>
    /\ hist.spawned = hist.dispatched

Answers16(id) == Cardinality({i \in 1..Len(hist.responses) : hist.responses[i].id = id})

\* C16: for every request the dispatch worker took that is not a notify,
\* one response is published on its reply subject, whether the handler
\* succeeds, the handler fails or no context could be built, and none
\* before the request's task has run; for a notify none is published.
C16_OneResponse ==
    \A i \in 1..Len(hist.dispatched) :
       LET req == hist.dispatched[i] IN
       /\ req.type = "notify" => Answers16(req.id) = 0
       /\ req.type # "notify" =>
             Answers16(req.id) = (IF req \in work.tasks THEN 0 ELSE 1)
       /\ \A j \in 1..Len(hist.responses) :
             hist.responses[j].id = req.id =>
                (hist.responses[j].status = "ctx") = ~req.ctx

C16_Witness ==
    /\ work.tasks = {} /\ Len(hist.dispatched) = 3
    /\ \E i \in 1..3 : hist.dispatched[i].type = "notify"
    /\ \E j \in 1..Len(hist.responses) : hist.responses[j].status = "ctx"
    /\ \E j \in 1..Len(hist.responses) : hist.responses[j].status = "error"

\* C17: an envelope taken from subChan, or a bind notification taken from
\* bindingsChan, that does not unmarshal is dropped, and the worker goes on
\* with the next message: the decodable messages taken after it are
\* forwarded to unhandledReqCh, or passed to SessionBindRemote.
C17_UndecodableDropped ==
    /\ \A i \in 1..Len(hist.dispatched) : hist.dispatched[i].ok
    /\ work.hand # NoEnvelope => work.hand.ok
    /\ \A i \in 1..Len(hist.bound) : hist.bound[i].ok
    /\ \A i \in 1..Len(hist.taken) :
          hist.taken[i].ok => \E j \in 1..Len(Forwarded) : Forwarded[j] = hist.taken[i]
    /\ \A i \in 1..Len(hist.bindtaken) :
          hist.bindtaken[i].ok => \E j \in 1..Len(hist.bound) : hist.bound[j] = hist.bindtaken[i]

C17_Witness ==
    /\ Len(hist.taken) = 1 /\ ~hist.taken[1].ok
    /\ hist.dispatched = <<>> /\ work.hand = NoEnvelope
    /\ Len(hist.bindtaken) = 2 /\ ~hist.bindtaken[1].ok
    /\ hist.bound = <<hist.bindtaken[2]>>

\* C18: a user push or a user kick whose payload does not unmarshal is
\* dropped: it is not put on userPushCh or userKickCh and PushToUser or
\* KickUser is not called for it.
C18_BadPushDropped ==
    /\ \A i \in 1..Len(chans.userPushCh) : chans.userPushCh[i].ok
    /\ \A i \in 1..Len(chans.userKickCh) : chans.userKickCh[i].ok
    /\ \A i \in 1..Len(hist.pushed) : hist.pushed[i].ok
    /\ \A i \in 1..Len(hist.kicked) : hist.kicked[i].ok

\* C14: the listener callbacks of the notifications of one uid run in
\* the order in which the notifications arrived, whether or not the server
\* holds a session of the uid.
C14_ListenersInArrivalOrder ==
    [][\A e \in heard' \ heard :
          \A a \in sent :
             (a.to = e.sv /\ a.uid = e.uid /\ a.n < e.n)
                => \E f \in heard : f.sv = e.sv /\ f.n = a.n]_vars

\* Listener calls handed to the same task key keep their arrival order.
ListenersOfOneKeyInOrder ==
    [][\A e \in heard' \ heard :
          \A a \in sent :
             (/\ a.to = e.sv /\ a.uid = e.uid /\ a.n < e.n
              /\ (a.route = "session.bound") = (e.ev = "OnUserBound"))
                => \E f \in heard : f.sv = e.sv /\ f.n = a.n]_vars

MaxOf(S) == CHOOSE x \in S : \A y \in S : y <= x

SumsSeen(h) == {h.sums[i] : i \in 1..Len(h.sums)}

\* C21: whatever dropped counts the subscriptions report, ns.dropped never
\* decreases from one handled envelope to the next, and it is the larger of
\* 0 and the largest sum of dropped counts observed so far: it exceeds the
\* largest sum observed only while every sum observed is negative, and then
\* it is 0.
C21_DroppedMonotonic ==
    [][/\ ns'.dropped >= ns.dropped
       /\ ns'.dropped = MaxOf({0} \cup SumsSeen(hist'))
       /\ (hist'.sums # <<>> /\ ns'.dropped > MaxOf(SumsSeen(hist')))
             => (ns'.dropped = 0 /\ \A x \in SumsSeen(hist') : x < 0)]_vars

\* Sums below 0, then above, then lower again: the counter stays 0 at the
\* first, takes the second and keeps it at the third.
C21_Witness ==
    /\ Len(hist.sums) = 3
    /\ hist.sums[1] < 0 /\ hist.sums[2] > 0
    /\ hist.sums[3] < hist.sums[2] /\ hist.sums[3] >= 0
    /\ ns.dropped = hist.sums[2]

\* C21 as it was stated: ns.dropped never decreases and never exceeds the
\* largest sum of dropped counts observed so far.
C21_NeverAboveLargestSum ==
    [][/\ ns'.dropped >= ns.dropped
       /\ hist'.sums # <<>> => ns'.dropped <= MaxOf(SumsSeen(hist'))]_vars

\* Every sum observed so far is negative and the counter is 0.
OnlyNegativeSums ==
    /\ Len(hist.sums) = 2 /\ \A x \in SumsSeen(hist) : x < 0
    /\ ns.dropped = 0

\* C22: onSessionBind is all-or-nothing: on a frontend a call that returns
\* nil has made the user-push and the user-kick subscription of the uid and
\* recorded both on the session, a call that returns an error leaves no
\* user-scoped subscription active in the broker; on a server that is not
\* a frontend no user-scoped subscription is made.
C22_UserSubsAllOrNothing ==
    \A i \in 1..Len(hist.calls) :
       LET c == hist.calls[i]
           active == {b \in hist.broker : b.sid = c.sid}
           svType == ServerType(work.server) IN
       IF ~IsFrontend(work.server) THEN active = {} /\ c.err = "OK" /\ c.pc = "done"
       ELSE IF c.pc # "done" THEN TRUE
       ELSE IF c.err = "OK"
       THEN /\ active = {UserSub(c.sid, GetUserMessagesTopic(c.uid, svType)),
                         UserSub(c.sid, GetUserKickTopic(c.uid, svType))}
            /\ work.subs[c.sid] = active
       ELSE active = {}

\* The same without the calls whose second subscription failed.
UserSubsRecorded ==
    \A b \in hist.broker :
       \/ b \in work.subs[b.sid]
       \/ /\ hist.calls[b.sid].err # "OK" \/ hist.calls[b.sid].pc = "kick"
          /\ b.topic = GetUserMessagesTopic(hist.calls[b.sid].uid, ServerType(work.server))

\* Shutdown was called on an engine whose Init returned nil, or whose Init
\* failed to connect.
ShutdownCalled == ns.stop /\ (ns.status = "running" \/ ns.err = "Errconnect")

\* C23: once Shutdown is called after Init has started, whether Init
\* succeeded or failed to connect, the demultiplex task eventually returns
\* without a fault, the connection drained and unhandledReqCh, subChan and
\* bindingsChan closed.
C23_ShutdownReturns == ShutdownCalled ~> (ns.demux = "returned" /\ ns.closed)

\* On an engine whose Init returned nil the demultiplex task does return,
\* unless Shutdown was called before Init had the connection.
RunningShutdownReturns ==
    (ns.stop /\ ns.status = "running" /\ ns.demux # "fault")
        ~> (ns.demux = "returned" /\ ns.closed)

\* After the demultiplex task has returned no request is taken from subChan
\* or forwarded to unhandledReqCh.
NoForwardAfterReturn ==
    [][ns.demux = "returned" =>
         (hist'.taken = hist.taken /\ (work'.hand # NoEnvelope => work'.hand = work.hand))]_vars

\* C28: after Shutdown on an engine whose Init returned nil the demultiplex
\* task, processMessages, processSessionBindings, processPushes and
\* processKick all eventually end.
C28_WorkersTerminate ==
    (ns.stop /\ ns.status = "running" /\ ns.demux # "fault") ~>
        /\ ns.demux = "returned"
        /\ \A w \in DOMAIN ns.workers : ns.workers[w] = "done"

\* processMessages and processSessionBindings do end.
ChannelWorkersTerminate ==
    (ns.stop /\ ns.status = "running" /\ ns.demux # "fault") ~>
        (ns.workers.dispatch = "done" /\ ns.workers.bindings = "done")

\* The Kick handler answers the request m in this step.
KickAnswers(r) == r \in replies' \ replies /\ r.msg.route = "kick"

\* Session.Kick calls made in this step for the request m.
KickCalls(m) == {e \in heard' \ heard : e.ev = "Kick" /\ e.n = m.n /\ e.sv = m.to}

\* C24: the Kick handler always returns a KickAnswer; kicked is true iff
\* the pool holds a session of msg.userId and the Kick of that session
\* returned no error; without a session it returns kicked = false and
\* ErrSessionNotFound and calls no Kick.
C24_KickAnswer ==
    [][\A r \in replies' \ replies : KickAnswers(r) =>
          LET found == pool[r.msg.to][r.msg.uid] IN
          /\ r.kicked \in BOOLEAN
          /\ r.kicked <=> (found # NoSession /\ \E e \in KickCalls(r.msg) : e.x = "OK")
          /\ found = NoSession =>
                (~r.kicked /\ r.res = "ErrSessionNotFound" /\ KickCalls(r.msg) = {})
          /\ found # NoSession =>
                (Cardinality(KickCalls(r.msg)) = 1 /\ \A e \in KickCalls(r.msg) : e.x = r.res)]_vars

C24_Witness ==
    /\ \E r \in replies : r.msg.route = "kick" /\ r.kicked /\ r.res = "OK"
    /\ sess[<<"F1", 1>>].st = "Closed" /\ calls[<<"F1", 1>>].reason = "Normal"
    /\ \E r \in replies : /\ r.msg.route = "kick" /\ ~r.kicked
                           /\ r.res = "ErrSessionNotFound" /\ r.msg.to = "F1"

\* A Kick of the session that returned an error was answered.
KickErrorAnswered ==
    \E r \in replies : r.msg.route = "kick" /\ ~r.kicked /\ r.res = "ErrKick"

\* Flush2Cluster of the bind of h succeeds in this step.
BindFlushed(h) ==
    /\ calls[h].kind = "bind" /\ calls[h].pc = "flush"
    /\ calls'[h].pc = "broadcast" /\ "flush" \notin calls'[h].failed

\* C25: OnSessionBind publishes a bind message (bindings broadcast, Fork or
\* session.bound Notify) only after Flush2Cluster has succeeded in the same
\* invocation, and that Flush2Cluster wrote the cache record of the uid
\* with the frontend id the message carries.
C25_PublishAfterFlush ==
    [][/\ \A m \in sent' \ sent :
            m.kind = "bind" =>
               LET c == calls[m.by] IN
               /\ c.kind = "bind" /\ c.n = m.n /\ c.uid = m.uid /\ c.sv = m.fid
               /\ Did(c, "flush") = 1 /\ "flush" \notin c.failed
       /\ \A h \in FrontSessions :
            BindFlushed(h) =>
               /\ cache'[calls[h].uid].present
               /\ cache'[calls[h].uid].fid = calls[h].sv
               /\ cache'[calls[h].uid].fsid = SessionID(h)]_vars

C25_Witness ==
    \E h, g \in FrontSessions :
       /\ BindSucceeded(h)
       /\ \A route \in {"bindings", "session.bound.fork", "session.bound"} :
             \E m \in sent : m.by = h /\ m.route = route /\ m.fid = Owner(h)
       /\ calls[g].kind = "bind" /\ calls[g].failed = {"flush"}
       /\ \A m \in sent : m.by # g

\* C26: a backend binding of the uid that is in the cache record when the
\* Flush2Cluster of OnSessionBind runs, written there by another server
\* after the callback's ObtainFromCluster, is still in the record after the
\* Flush2Cluster.
C26_FlushKeepsBackends ==
    [][\A h \in FrontSessions :
         BindFlushed(h) =>
            \A t \in ServerTypes :
               cache[calls[h].uid].backends[t] # NoServer =>
                  cache'[calls[h].uid].backends[t] = cache[calls[h].uid].backends[t]]_vars

\* A Flush2Cluster of OnSessionBind that follows its ObtainFromCluster with
\* no write of the record in between keeps the backend bindings.
QuietFlushKeepsBackends ==
    [][\A h \in FrontSessions :
         (BindFlushed(h) /\ cache[calls[h].uid].backends = sess[h].backends) =>
            cache'[calls[h].uid].backends = cache[calls[h].uid].backends]_vars

\* C27: of the OnBindBackend calls with target == self that run for the
\* same uid on one server, at most one returns success: no two of them
\* store a session and fan the bind out.
C27_OneSelfBindWins ==
    \A g, h \in BackSessions :
       (/\ g # h /\ SelfBound(g) /\ SelfBound(h)
        /\ calls[g].sv = calls[h].sv) => calls[g].uid # calls[h].uid

\* BindBackendSession handles the request m in this step.
HandlesBindBackend(m) ==
    m.route = "session.bind.backend" /\ m \in net /\ m \notin net'

\* C29: BindBackendSession returns ErrSessionNotFound, without a fault and
\* without calling BindBackend, whenever the pool has no session of msg.uid
\* and the context of the request holds no session; and it calls BindBackend
\* on no context session whose uid is not msg.uid.
C29_SessionLookup ==
    [][\A m \in net :
         (HandlesBindBackend(m) /\ GetSessionByUID(m.to, m.uid) = NoSession) =>
            /\ m.suid = NoUid =>
                  (Answers(m, "ErrSessionNotFound") /\ calls' = calls)
            /\ (m.suid # NoUid /\ m.suid # m.uid) => calls' = calls]_vars

\* With a session of msg.uid in the pool or in the context the handler
\* does not fault.
BindBackendLookupFound ==
    [][\A m \in net :
         (HandlesBindBackend(m)
          /\ (GetSessionByUID(m.to, m.uid) # NoSession \/ m.suid = m.uid)) =>
            ~Answers(m, "panic")]_vars

\* Sys.SessionBound handles the notification m in this step.
HandlesBound(m) == m.route = "session.bound" /\ m \in net /\ m \notin net'

\* The listener calls made in this step.
Heard == heard' \ heard

\* The OnUserBound calls listener l got for the notification m.
BoundCalls(hd, m, l) ==
    {e \in hd : /\ e.ev = "OnUserBound" /\ e.sv = m.to /\ e.n = m.n
                /\ e.uid = m.uid /\ e.x = m.fid /\ e.md = m.md /\ e.r = l}

\* The closures of the notification m that have not run.
PendingOf(w, m) == {i \in DOMAIN w.tasks : w.tasks[i].msg = m}

SessionListeners == {work.listeners[k] : k \in DOMAIN work.listeners}

\* What the handler itself does: the frontend data of the local session of
\* msg.uid is set when the pool holds one and no session changes when it
\* holds none, the pool is unchanged, and ack is returned; the handler
\* calls no listener itself.
BoundHandled ==
    \A m \in net :
       HandlesBound(m) =>
          LET h == pool[m.to][m.uid] IN
          /\ h # NoSession =>
                sess' = [sess EXCEPT ![h].fid = m.fid, ![h].fsid = m.sid]
          /\ h = NoSession => sess' = sess
          /\ pool' = pool
          /\ Heard = {}
          /\ replies' \ replies = {[msg |-> m, res |-> "ack"]}

\* Of every notification the handler returned from, each registered
\* listener gets OnUserBound(uid, fid, metadata) at most once, and once
\* when the closures of the notification have run; nothing else gets it.
OncePerListener ==
    /\ \A a \in replies' :
          a.msg.route = "session.bound" =>
             \A l \in SessionListeners :
                /\ Cardinality(BoundCalls(heard', a.msg, l)) <= 1
                /\ PendingOf(work', a.msg) = {}
                      => Cardinality(BoundCalls(heard', a.msg, l)) = 1
    /\ \A e \in Heard :
          e.ev = "OnUserBound" =>
             /\ e.r \in SessionListeners
             /\ \E a \in replies : /\ a.msg.route = "session.bound"
                                    /\ e \in BoundCalls(heard', a.msg, e.r)

\* C30: SessionBound sets the frontend data of the local session of msg.uid
\* to (msg.fid, msg.sid) when the pool holds one and leaves the sessions
\* and the pool unchanged when it holds none; in both cases OnUserBound(uid,
\* fid, metadata) is called exactly once on each registered
\* RemoteSessionListener, by the closures the handler hands over, and the
\* handler returns ack.
C30_SessionBoundHandler == [][BoundHandled /\ OncePerListener]_vars

\* The handler's own part holds whatever is registered.
BoundHandlerEffects == [][BoundHandled]_vars

\* Each listener is called once when at most one is registered or when a
\* closure captures the variable of its own iteration.
BoundOncePerIteration ==
    [][(work.loopvar = "iteration" \/ Len(work.listeners) <= 1)
          => OncePerListener]_vars

\* Two listeners: the second was called by both closures of a notification.
BoundCalledTwice ==
    \E e, f \in heard : /\ e.ev = "OnUserBound" /\ f.ev = "OnUserBound"
                         /\ e.sv = f.sv /\ e.n = f.n /\ e.uid = f.uid
                         /\ e.k = 1 /\ f.k = 2 /\ e.r = 2 /\ f.r = 2
                         /\ work.tasks = <<>>

\* Two listeners, each called once by its own closure, on a server that
\* holds a session of the uid.
BoundEachOnce ==
    /\ \E e, f \in heard : /\ e.ev = "OnUserBound" /\ f.ev = "OnUserBound"
                            /\ e.sv = "B1" /\ f.sv = "B1" /\ e.n = f.n
                            /\ e.k = 1 /\ f.k = 2 /\ e.r = 1 /\ f.r = 2
    /\ pool["B1"]["u1"] = <<"B1", -1>>
    /\ sess[<<"B1", -1>>].fid = "F2" /\ sess[<<"B1", -1>>].fsid = 2

\* No listener registered: the handler returned ack and nothing was called.
BoundNoListener ==
    /\ work.listeners = <<>>
    /\ \E a \in replies : a.msg.route = "session.bound" /\ a.res = "ack"
    /\ heard = {}

\* A server without a session of the uid handled the notification.
BoundHeardWithoutSession ==
    \E e \in heard : /\ e.ev = "OnUserBound" /\ e.sv = "B2"
                      /\ pool["B2"]["u1"] = NoSession

\* The OnSessionBind callback is run for session h in this step.
BindCalled(h) ==
    /\ calls'[h] # calls[h] /\ calls'[h].kind = "bind"
    /\ calls'[h].n = calls[h].n + 1

\* C31: on a server that is not a frontend the OnSessionBind callback
\* returns success and changes nothing: the cache record is neither read
\* nor written, the session's frontend data is unchanged, and no broadcast,
\* Fork or Notify is published.
C31_NotFrontendNoop ==
    [][\A h \in Handles :
         (BindCalled(h) /\ ~IsFrontend(Owner(h))) =>
            /\ calls'[h].pc = "done" /\ calls'[h].err = "OK"
            /\ calls'[h].ops = <<>>
            /\ cache' = cache /\ sess' = sess /\ pool' = pool
            /\ sent' = sent /\ net' = net]_vars

C31_Witness ==
    \E h \in BackSessions :
       /\ calls[h].kind = "bind" /\ calls[h].pc = "done" /\ calls[h].err = "OK"
       /\ calls[h].sv = "B1" /\ calls[h].ops = <<>>
       /\ sess[h].fid = "F1"
       /\ \A m \in sent : m.by # h

====
